---- MODULE Spec2Model ----
(***************************************************************************)
(* Model of the pave-billing bill workflow (billing/core/workflow.go), its *)
(* activities (billing/core/activities.go), the Bill methods               *)
(* (billing/models/models.go), the SQL repository (repository.go) and the  *)
(* create-bill entry point (billing/billing.go, billing/core/service.go,   *)
(* billing/validation.go).  One bill and its one workflow are modelled.    *)
(*                                                                         *)
(* Time is a natural number of ticks; 0 is Go's zero time.Time.            *)
(*                                                                         *)
(* The durable-execution substrate (Temporal Go SDK) is modelled by what   *)
(* the workflow code relies on:                                            *)
(*  - a signal is appended to the buffered channel of its name;            *)
(*  - Selector.Select runs the first ready case in the order the cases     *)
(*    were added (AddReceive add, AddReceive close, AddFuture timer); when *)
(*    no case is ready it blocks and the first case to become ready is     *)
(*    the one it runs (readyBranch);                                       *)
(*  - an activity is attempted up to MaximumAttempts times; an attempt     *)
(*    either fails before touching the database, or runs the repository    *)
(*    call and reports its result, or runs it and loses the result         *)
(*    (timeout or worker crash after the statement committed);             *)
(*  - the workflow execution timeout cancels a running workflow.           *)
(***************************************************************************)
EXTENDS Integers, Sequences, FiniteSets, TLC

\* ---------------------------------------------------------------- bounds
\* last instant of the clock
MaxTime == 4
\* number of add-line-item signals sent to the workflow
MaxItems == 2
\* number of close-bill signals sent to the workflow
MaxCloseSignals == 2
\* Billing.Validation.MaxBillingPeriodDays (365 in config.cue), scaled down
MaxBillingPeriod == 2
\* number of line items of a bill Bill.CalculateSum is applied to
MaxCalcItems == 2
\* number of times an add-line-item signal is delivered again
MaxRedeliveries == 1
\* last instant of the clock of the exchange-rates service
MaxRatesTime == 5
\* number of GetRates calls
MaxRatesCalls == 3
\* number of snapshots the provider serves
MaxFetches == 2
\* number of times the process of the exchange-rates service starts again
MaxRestarts == 1

\* ------------------------------------------------------ program constants
\* the instant of the create-bill request; one tick of the clock is one day
StartTime == 2
\* Billing.Validation.MaxPastStartDays
MaxPastStart == 1
\* Temporal.WorkflowExecutionTimeoutBuffer: 3600 s, rounded up to one tick
WorkflowExecutionTimeoutBuffer == 1
\* Temporal.ActivityRetryPolicy.MaximumAttempts as in the workflow tests
MaximumAttempts == 3
\* ExternalServices.ExchangeRates.TTL: 86400 s, two ticks of ratesClock
TTL == 2
\* Billing.Validation.MaxDescriptionLength: 500, scaled to two characters
MaxDescriptionLength == 2
\* Billing.Validation.MaxQuantity: 1000000, scaled to 3 units
MaxQuantity == 3
\* Billing.Validation.MaxUnitPrice: 1000000, scaled to 3.000
MaxUnitPrice == 3000
\* Billing.Validation.MaxTotalAmount: 10000000, scaled to 6.000: as in the
\* configuration it lies below MaxQuantity x MaxUnitPrice
MaxTotalAmount == 6000

Times == 0..MaxTime

VARIABLES
    now,            \* wall clock / workflow clock
    pc,             \* position of the workflow coroutine
    resp,           \* result of the last create-bill HTTP call
    bill,           \* the workflow's in-memory *models.Bill
    wfDeadline,     \* instant at which WorkflowExecutionTimeout expires
    addLineItemCh,  \* buffered AddLineItemSignal channel
    closeBillCh,    \* buffered CloseBillSignal channel
    periodEndTimer, \* the timer future
    readyBranch,    \* case picked while Select was blocked
    queryHandler,   \* GetBillQuery handler registered
    act,            \* the activity in flight
    repoBill,       \* row of table bills
    repoItems,      \* rows of table line_items, in insertion order
    hist,           \* history: what happened, for stating properties
    svc,            \* the service call in flight (get_bill, add_line_item, close_bill)
    svcResp,        \* what the service call that finished in this step returned
    calc,           \* Bill.CalculateSum applied to a bill: the arguments and the result
    redelivered,    \* add-line-item signals the substrate delivered once more
    repoCall,       \* the repository call made in this step, with its result
    ratesClock,     \* time.Now() of the exchange-rates service
    exr,            \* the exchange-rates service: its fields rates and updatedAt
    kv,             \* the shared cache: the entry under CacheKey
    call,           \* the GetRates calls: position and locals
    ratesRet,       \* what the GetRates call that returned in this step returned
    prov            \* history: the snapshots the provider served, the calls made

\* the bill, its workflow and the service calls on it
billVars == <<now, pc, resp, bill, wfDeadline, addLineItemCh, closeBillCh,
              periodEndTimer, readyBranch, queryHandler, act, repoBill, repoItems, hist,
              svc, svcResp>>

\* what the operations on the bill's workflow leave alone
ratesVars == <<ratesClock, exr, kv, call, ratesRet, prov>>

auxVars == <<calc, redelivered, repoCall, ratesVars>>

vars == <<now, pc, resp, bill, wfDeadline, addLineItemCh, closeBillCh,
          periodEndTimer, readyBranch, queryHandler, act, repoBill, repoItems, hist,
          svc, svcResp, calc, redelivered, repoCall, ratesClock, exr, kv, call, ratesRet,
          prov>>

\* ------------------------------------------------------------- data model
NullTime == [valid |-> FALSE, time |-> 0]
SomeTime(t) == [valid |-> TRUE, time |-> t]

BillStatusOpen == "open"
BillStatusClosed == "closed"

NoBill == [status |-> "none", periodStart |-> 0, periodEnd |-> 0, createdAt |-> 0,
           closedAt |-> NullTime, lineItems |-> <<>>]

IsOpen(b) == b.status = BillStatusOpen

IsClosedTypo(b) == b.status = "close"
IsClosed(b) == b.status = BillStatusClosed

\* Bill.AddLineItem: [success, bill]
AddLineItemPrepend(b, item) ==
    IF IsClosed(b) THEN [success |-> FALSE, bill |-> b]
    ELSE [success |-> TRUE, bill |-> [b EXCEPT !.lineItems = <<item>> \o @]]
AddLineItem(b, item) ==
    IF IsClosed(b) THEN [success |-> FALSE, bill |-> b]
    ELSE [success |-> TRUE, bill |-> [b EXCEPT !.lineItems = Append(@, item)]]

\* Bill.Close: [success, bill]
CloseNoGuard(b, at) ==
    [success |-> TRUE,
     bill |-> [b EXCEPT !.status = BillStatusClosed, !.closedAt = SomeTime(at)]]
CloseStatusOnly(b, at) ==
    IF IsClosed(b) THEN [success |-> FALSE, bill |-> b]
    ELSE [success |-> TRUE, bill |-> [b EXCEPT !.status = BillStatusClosed]]
Close(b, at) ==
    IF IsClosed(b) THEN [success |-> FALSE, bill |-> b]
    ELSE [success |-> TRUE,
          bill |-> [b EXCEPT !.status = BillStatusClosed, !.closedAt = SomeTime(at)]]

\* ------------------------------------------------------------- validation
CustomerIDs == {"", "c1"}
Requests == [customerID : CustomerIDs, periodStart : Times, periodEnd : Times]

\* ValidateCreateBillRequest: "ok" or the error
ValidateCreateBillRequest(req, clock) ==
    IF req.customerID = "" THEN "invalid_argument"
    ELSE IF req.periodStart = 0 THEN "invalid_argument"
    ELSE IF req.periodEnd = 0 THEN "invalid_argument"
    ELSE IF req.periodEnd < req.periodStart THEN "invalid_argument"
    ELSE IF req.periodEnd - req.periodStart > MaxBillingPeriod THEN "invalid_argument"
    ELSE IF req.periodStart < clock - MaxPastStart THEN "invalid_argument"
    ELSE "ok"

\* ------------------------------------------------------------- repository
NoRow == [present |-> FALSE, status |-> "none", closedAt |-> NullTime]

RowIDs(rows) == {rows[i].id : i \in 1..Len(rows)}

\* SQLRepository.CreateBill: INSERT INTO bills; id is the primary key
RepoCreateBill(row, b) ==
    IF row.present THEN [err |-> TRUE, row |-> row]
    ELSE [err |-> FALSE,
          row |-> [present |-> TRUE, status |-> b.status, closedAt |-> NullTime]]

\* SQLRepository.CloseBill: UPDATE ... WHERE id = $2 AND status = 'open';
\* no row affected is sql.ErrNoRows
RepoCloseBillNoGuard(row, closedAt) ==
    [err |-> FALSE,
     row |-> [row EXCEPT !.status = BillStatusClosed, !.closedAt = SomeTime(closedAt)]]
RepoCloseBill(row, closedAt) ==
    IF row.present /\ row.status = BillStatusOpen
    THEN [err |-> FALSE,
          row |-> [row EXCEPT !.status = BillStatusClosed, !.closedAt = SomeTime(closedAt)]]
    ELSE [err |-> TRUE, row |-> row]

\* SQLRepository.AddLineItemToBill: INSERT INTO line_items; id is the primary
\* key and bill_id references bills(id)
RepoAddLineItemNoKey(row, rows, item) ==
    IF ~row.present THEN [err |-> TRUE, rows |-> rows]
    ELSE [err |-> FALSE, rows |-> Append(rows, item)]
RepoAddLineItemToBill(row, rows, item) ==
    IF ~row.present \/ item.id \in RowIDs(rows) THEN [err |-> TRUE, rows |-> rows]
    ELSE [err |-> FALSE, rows |-> Append(rows, item)]

\* ---------------------------------------------------------------- helpers
NoAct == [name |-> "none", attempt |-> 0, item |-> [id |-> 0], closedAt |-> 0]
NoTimer == [state |-> "unarmed", armedAt |-> 0, at |-> 0, firedAt |-> 0]

Running == pc \in {"save", "select", "activity"}

\* Select is blocked: the coroutine waits in Select and no case is ready
Blocked ==
    /\ pc = "select"
    /\ readyBranch = "none"
    /\ addLineItemCh = <<>>
    /\ closeBillCh = <<>>
    /\ periodEndTimer.state # "fired"

\* the case Select runs: the one that woke it, else the first ready one in
\* the order of AddReceive / AddFuture
SelectedBranch ==
    IF readyBranch # "none" THEN readyBranch
    ELSE IF addLineItemCh # <<>> THEN "add"
    ELSE IF closeBillCh # <<>> THEN "close"
    ELSE IF periodEndTimer.state = "fired" THEN "timer"
    ELSE "none"

\* for !bill.IsClosed() { selector.Select(ctx) }; return nil
LoopNextNoExit(b) == "select"
LoopNext(b) == IF IsClosed(b) THEN "completed" ELSE "select"

\* duration := bill.PeriodEnd.Sub(workflow.Now(ctx)); if duration < 0 { duration = 0 }
TimerDuration(b, clock) ==
    IF b.periodEnd - clock < 0 THEN 0 ELSE b.periodEnd - clock

\* workflowTimeout := req.PeriodEnd.Sub(req.PeriodStart) + buffer
WorkflowTimeout(req) == (req.periodEnd - req.periodStart) + WorkflowExecutionTimeoutBuffer

Started(name, item, closedAt) ==
    [name |-> name, attempt |-> 1, item |-> item, closedAt |-> closedAt]

NoHist == [started |-> <<>>, nextId |-> 1, closeSignals |-> 0,
           afterCloseSignal |-> {}, afterClosed |-> {}, beforeClose |-> {},
           closedBy |-> "none", saveErr |-> FALSE, timerFiredFirst |-> FALSE]

\* no service call in flight; nothing returned yet
NoSvc == [op |-> "none", step |-> "none", item |-> [id |-> 0], now |-> 0]
NoTotal == [valid |-> FALSE, byCurrency |-> <<>>, converted |-> <<>>]
NoView == [status |-> "none", closedAt |-> NullTime, lineItems |-> <<>>, total |-> NoTotal]
NoResp == [op |-> "none", err |-> "none", bill |-> NoView, source |-> "none",
           queried |-> FALSE, repoRead |-> FALSE, fetch |-> "none", snapshot |-> <<>>,
           signalled |-> FALSE, item |-> [id |-> 0], now |-> 0]

\* the exchange-rates service as NewConversionService returns it: rates nil
\* (0), updatedAt the zero time (0); a snapshot of the provider is known by
\* its number 1, 2, ...
NoRates == [rates |-> 0, updatedAt |-> 0]
\* no entry under CacheKey
NoEntry == [present |-> FALSE, rates |-> 0, updatedAt |-> 0, expireAt |-> 0]
\* the goroutines that call GetRates
Callers == {1, 2}
\* no GetRates call running
NoCall == [pc |-> "idle", data |-> NoRates, checkAt |-> 0, within |-> FALSE,
           cacheHeld |-> FALSE, readCache |-> FALSE, fetched |-> FALSE, rates |-> 0]
\* no GetRates call returned in this step
NoRet == [caller |-> 0, err |-> FALSE, rates |-> 0, updatedAt |-> 0, at |-> 0,
          checkAt |-> 0, within |-> FALSE, cacheHeld |-> FALSE, readCache |-> FALSE,
          fetched |-> FALSE]
\* GetRates returns: the error or the snapshot, with what the call did
Returned(p, c, err, rates, updatedAt, clock) ==
    [caller |-> p, err |-> err, rates |-> rates, updatedAt |-> updatedAt, at |-> clock,
     checkAt |-> c.checkAt, within |-> c.within, cacheHeld |-> c.cacheHeld,
     readCache |-> c.readCache, fetched |-> c.fetched]
\* nothing served by the provider, no call made
NoProv == [fetches |-> 0, calls |-> 0, restarts |-> 0, produced |-> <<>>, stamp |-> <<>>]

\* no repository call in this step
NoRepoCall == [op |-> "none", at |-> 0, id |-> 0, err |-> FALSE]

\* Bill.CalculateSum not applied
NoCalc == [applied |-> FALSE, items |-> <<>>, rates |-> <<>>, err |-> "none",
           total |-> NoTotal]

\* ------------------------------------------------------------------- Init
Init ==
    /\ now = StartTime
    /\ pc = "none"
    /\ resp = "none"
    /\ bill = NoBill
    /\ wfDeadline = 0
    /\ addLineItemCh = <<>>
    /\ closeBillCh = <<>>
    /\ periodEndTimer = NoTimer
    /\ readyBranch = "none"
    /\ queryHandler = FALSE
    /\ act = NoAct
    /\ repoBill = NoRow
    /\ repoItems = <<>>
    /\ hist = NoHist
    /\ svc = NoSvc
    /\ svcResp = NoResp
    /\ calc = NoCalc
    /\ redelivered = 0
    /\ repoCall = NoRepoCall
    /\ ratesClock = TTL
    /\ exr = NoRates
    /\ kv = NoEntry
    /\ call = [p \in Callers |-> NoCall]
    /\ ratesRet = NoRet
    /\ prov = NoProv

\* ---------------------------------------------------------------- actions

\* Handler.CreateBill -> ValidateCreateBillRequest -> service.CreateBill ->
\* ExecuteWorkflow; the started workflow schedules the SaveBill activity.
CreateBill(req, startOk) ==
    /\ pc = "none"
    /\ IF ValidateCreateBillRequest(req, now) # "ok"
       THEN /\ resp' = "invalid_argument"
            /\ UNCHANGED <<pc, bill, wfDeadline, act, hist>>
       ELSE IF ~startOk
       THEN /\ resp' = "internal"
            /\ UNCHANGED <<pc, bill, wfDeadline, act, hist>>
       ELSE /\ resp' = "ok"
            /\ bill' = [status |-> BillStatusOpen, periodStart |-> req.periodStart,
                        periodEnd |-> req.periodEnd, createdAt |-> now,
                        closedAt |-> NullTime, lineItems |-> <<>>]
            /\ wfDeadline' = now + WorkflowTimeout(req)
            /\ pc' = "save"
            /\ act' = Started("SaveBill", NoAct.item, 0)
            /\ hist' = [hist EXCEPT !.started = Append(@, "SaveBill")]
    /\ UNCHANGED <<now, addLineItemCh, closeBillCh, periodEndTimer, readyBranch,
                   queryHandler, repoBill, repoItems, svc>>
    /\ svcResp' = NoResp
    /\ UNCHANGED auxVars

\* an AddLineItemSignal arrives at the workflow (SignalWorkflow).  The sender
\* mints a fresh id and stamps created_at with its clock, so ids are minted in
\* created_at order: the id stands for both.
SignalAddLineItem ==
    /\ Running
    /\ hist.nextId <= MaxItems
    /\ LET item == [id |-> hist.nextId] IN
        /\ addLineItemCh' = Append(addLineItemCh, item)
        /\ readyBranch' = IF Blocked THEN "add" ELSE readyBranch
        /\ hist' = [hist EXCEPT
                !.nextId = @ + 1,
                !.afterCloseSignal = IF hist.closeSignals > 0 THEN @ \cup {item.id} ELSE @,
                !.afterClosed = IF IsClosed(bill) THEN @ \cup {item.id} ELSE @,
                !.beforeClose = IF hist.closeSignals = 0 /\ periodEndTimer.state # "fired"
                                   /\ ~IsClosed(bill)
                                THEN @ \cup {item.id} ELSE @]
    /\ UNCHANGED <<now, pc, resp, bill, wfDeadline, closeBillCh, periodEndTimer,
                   queryHandler, act, repoBill, repoItems, svc>>
    /\ svcResp' = NoResp
    /\ UNCHANGED auxVars

\* a CloseBillSignal arrives at the workflow; RequestedAt is the sender's now
SignalCloseBill ==
    /\ Running
    /\ hist.closeSignals < MaxCloseSignals
    /\ closeBillCh' = Append(closeBillCh, now)
    /\ readyBranch' = IF Blocked THEN "close" ELSE readyBranch
    /\ hist' = [hist EXCEPT !.closeSignals = @ + 1]
    /\ UNCHANGED <<now, pc, resp, bill, wfDeadline, addLineItemCh, periodEndTimer,
                   queryHandler, act, repoBill, repoItems, svc>>
    /\ svcResp' = NoResp
    /\ UNCHANGED auxVars

\* the period-end timer fires
TimerFire ==
    /\ Running
    /\ periodEndTimer.state = "armed"
    /\ now >= periodEndTimer.at
    /\ periodEndTimer' = [periodEndTimer EXCEPT !.state = "fired", !.firedAt = now]
    /\ readyBranch' = IF Blocked THEN "timer" ELSE readyBranch
    /\ hist' = [hist EXCEPT !.timerFiredFirst =
                    /\ bill.status = BillStatusOpen
                    /\ closeBillCh = <<>>
                    /\ readyBranch # "close"]
    /\ UNCHANGED <<now, pc, resp, bill, wfDeadline, addLineItemCh, closeBillCh,
                   queryHandler, act, repoBill, repoItems, svc>>
    /\ svcResp' = NoResp
    /\ UNCHANGED auxVars

\* time passes; a due timer or a due execution timeout happens first
Tick ==
    /\ Running
    /\ now < MaxTime
    /\ ~(periodEndTimer.state = "armed" /\ now >= periodEndTimer.at)
    /\ now < wfDeadline
    /\ now' = now + 1
    /\ UNCHANGED <<pc, resp, bill, wfDeadline, addLineItemCh, closeBillCh, periodEndTimer,
                   readyBranch, queryHandler, act, repoBill, repoItems, hist, svc>>
    /\ svcResp' = NoResp
    /\ UNCHANGED auxVars

\* WorkflowExecutionTimeout expires: the substrate cancels the workflow
WorkflowTimeoutExpires ==
    /\ Running
    /\ now >= wfDeadline
    /\ pc' = "timed_out"
    /\ act' = NoAct
    /\ UNCHANGED <<now, resp, bill, wfDeadline, addLineItemCh, closeBillCh, periodEndTimer,
                   readyBranch, queryHandler, repoBill, repoItems, hist, svc>>
    /\ svcResp' = NoResp
    /\ UNCHANGED auxVars

\* closeBill(ctx, bill, requestedAt, cfg): Bill.Close, then the CloseBill
\* activity when the bill was open.  h is the history so far.
closeBillPassesPeriodEnd(b, requestedAt, by, h) ==
    LET r == Close(b, requestedAt) IN
    IF ~r.success
    THEN [bill |-> r.bill, pc |-> LoopNext(r.bill), act |-> NoAct, hist |-> h]
    ELSE [bill |-> r.bill, pc |-> "activity",
          act |-> Started("CloseBill", NoAct.item, b.periodEnd),
          hist |-> [h EXCEPT !.started = Append(@, "CloseBill"), !.closedBy = by]]
closeBill(b, requestedAt, by, h) ==
    LET r == Close(b, requestedAt) IN
    IF ~r.success
    THEN [bill |-> r.bill, pc |-> LoopNext(r.bill), act |-> NoAct, hist |-> h]
    ELSE [bill |-> r.bill, pc |-> "activity",
          act |-> Started("CloseBill", NoAct.item, requestedAt),
          hist |-> [h EXCEPT !.started = Append(@, "CloseBill"), !.closedBy = by]]

\* workflow.Now(ctx) handed to closeBill by the timer case
TimerRequestedAtPeriodEnd(b, clock) == b.periodEnd
TimerRequestedAt(b, clock) == clock

\* One case of the selector run up to the point where the coroutine blocks
\* again (in an activity) or the handler returns.
RunBranch(branch, h) ==
    IF branch = "add"
    THEN LET item == Head(addLineItemCh)
             r == AddLineItem(bill, item) IN
         [bill |-> r.bill,
          addCh |-> Tail(addLineItemCh), closeCh |-> closeBillCh,
          timerState |-> periodEndTimer.state,
          pc |-> IF r.success THEN "activity" ELSE LoopNext(r.bill),
          act |-> IF r.success THEN Started("AddLineItemToBill", item, 0) ELSE NoAct,
          hist |-> IF r.success
                   THEN [h EXCEPT !.started = Append(@, "AddLineItemToBill")] ELSE h]
    ELSE IF branch = "close"
    THEN LET c == closeBill(bill, Head(closeBillCh), "signal", h) IN
         [bill |-> c.bill,
          addCh |-> addLineItemCh, closeCh |-> Tail(closeBillCh),
          timerState |-> periodEndTimer.state,
          pc |-> c.pc, act |-> c.act, hist |-> c.hist]
    ELSE LET c == closeBill(bill, TimerRequestedAt(bill, now), "timer", h) IN
         [bill |-> c.bill,
          addCh |-> addLineItemCh, closeCh |-> closeBillCh,
          timerState |-> "consumed",
          pc |-> c.pc, act |-> c.act, hist |-> c.hist]

\* selector.Select(ctx) running the case `branch`
SelectDuringActivity(branch) ==
    /\ pc \in {"select", "activity"}
    /\ SelectedBranch = branch
    /\ LET r == RunBranch(branch, hist) IN
        /\ bill' = r.bill
        /\ addLineItemCh' = r.addCh
        /\ closeBillCh' = r.closeCh
        /\ periodEndTimer' = [periodEndTimer EXCEPT !.state = r.timerState]
        /\ pc' = r.pc
        /\ act' = r.act
        /\ hist' = r.hist
    /\ readyBranch' = "none"
    /\ UNCHANGED <<now, resp, wfDeadline, queryHandler, repoBill, repoItems, svc>>
    /\ svcResp' = NoResp
    /\ UNCHANGED auxVars
Select(branch) ==
    /\ pc = "select"
    /\ SelectedBranch = branch
    /\ LET r == RunBranch(branch, hist) IN
        /\ bill' = r.bill
        /\ addLineItemCh' = r.addCh
        /\ closeBillCh' = r.closeCh
        /\ periodEndTimer' = [periodEndTimer EXCEPT !.state = r.timerState]
        /\ pc' = r.pc
        /\ act' = r.act
        /\ hist' = r.hist
    /\ readyBranch' = "none"
    /\ UNCHANGED <<now, resp, wfDeadline, queryHandler, repoBill, repoItems, svc>>
    /\ svcResp' = NoResp
    /\ UNCHANGED auxVars

\* Select wakes up with the add-line-item case
SelectAddLineItem ==
    /\ addLineItemCh # <<>>
    /\ Select("add")

\* Select wakes up with the close-bill case
SelectCloseBill ==
    /\ closeBillCh # <<>>
    /\ Select("close")

\* Select wakes up with the timer case
SelectTimer ==
    /\ periodEndTimer.state = "fired"
    /\ Select("timer")

\* what the workflow does when SaveBill returned err: abort, or register the
\* query handler and arm the timer
AfterSaveBillIgnoreErr(err) ==
    [pc |-> LoopNext(bill), queryHandler |-> TRUE,
     timer |-> [state |-> "armed", armedAt |-> now,
                at |-> now + TimerDuration(bill, now), firedAt |-> 0]]
AfterSaveBill(err) ==
    IF err
    THEN [pc |-> "failed", queryHandler |-> FALSE, timer |-> periodEndTimer]
    ELSE [pc |-> LoopNext(bill), queryHandler |-> TRUE,
          timer |-> [state |-> "armed", armedAt |-> now,
                     at |-> now + TimerDuration(bill, now), firedAt |-> 0]]

\* The awaited activity returned err: the coroutine runs on, in the same
\* workflow task, until it blocks again.  It reaches the loop; when the bill
\* is open it calls Select, which runs a case that is already ready or blocks.
ResumeAbortOnErr(err) ==
    LET a == IF act.name = "SaveBill" THEN AfterSaveBill(err)
             ELSE [pc |-> IF err THEN "failed" ELSE LoopNext(bill),
                   queryHandler |-> queryHandler, timer |-> periodEndTimer]
        h == IF act.name = "SaveBill" THEN [hist EXCEPT !.saveErr = err] ELSE hist
    IN
    /\ queryHandler' = a.queryHandler
    /\ readyBranch' = "none"
    /\ IF a.pc = "select" /\ SelectedBranch # "none"
       THEN LET r == RunBranch(SelectedBranch, h) IN
            /\ bill' = r.bill
            /\ addLineItemCh' = r.addCh
            /\ closeBillCh' = r.closeCh
            /\ periodEndTimer' = [a.timer EXCEPT !.state =
                    IF r.timerState = "consumed" THEN "consumed" ELSE a.timer.state]
            /\ pc' = r.pc
            /\ act' = r.act
            /\ hist' = r.hist
       ELSE /\ pc' = a.pc
            /\ act' = NoAct
            /\ periodEndTimer' = a.timer
            /\ hist' = h
            /\ UNCHANGED <<bill, addLineItemCh, closeBillCh>>
Resume(err) ==
    LET a == IF act.name = "SaveBill" THEN AfterSaveBill(err)
             ELSE [pc |-> LoopNext(bill), queryHandler |-> queryHandler,
                   timer |-> periodEndTimer]
        h == IF act.name = "SaveBill" THEN [hist EXCEPT !.saveErr = err] ELSE hist
    IN
    /\ queryHandler' = a.queryHandler
    /\ readyBranch' = "none"
    /\ IF a.pc = "select" /\ SelectedBranch # "none"
       THEN LET r == RunBranch(SelectedBranch, h) IN
            /\ bill' = r.bill
            /\ addLineItemCh' = r.addCh
            /\ closeBillCh' = r.closeCh
            /\ periodEndTimer' = [a.timer EXCEPT !.state =
                    IF r.timerState = "consumed" THEN "consumed" ELSE a.timer.state]
            /\ pc' = r.pc
            /\ act' = r.act
            /\ hist' = r.hist
       ELSE /\ pc' = a.pc
            /\ act' = NoAct
            /\ periodEndTimer' = a.timer
            /\ hist' = h
            /\ UNCHANGED <<bill, addLineItemCh, closeBillCh>>

\* a failed attempt: retried until MaximumAttempts, then the error surfaces
Failed ==
    IF act.attempt < MaximumAttempts
    THEN /\ act' = [act EXCEPT !.attempt = @ + 1]
         /\ UNCHANGED <<pc, bill, addLineItemCh, closeBillCh, periodEndTimer,
                        readyBranch, queryHandler, hist>>
    ELSE Resume(TRUE)

\* the repository call of the activity in flight: [err, row, rows]
RunActivity ==
    IF act.name = "SaveBill"
    THEN LET r == RepoCreateBill(repoBill, bill) IN
         [err |-> r.err, row |-> r.row, rows |-> repoItems]
    ELSE IF act.name = "AddLineItemToBill"
    THEN LET r == RepoAddLineItemToBill(repoBill, repoItems, act.item) IN
         [err |-> r.err, row |-> repoBill, rows |-> r.rows]
    ELSE LET r == RepoCloseBill(repoBill, act.closedAt) IN
         [err |-> r.err, row |-> r.row, rows |-> repoItems]

\* an attempt that fails before its statement runs (database unavailable)
ActivityAttemptError ==
    /\ pc = "activity" \/ pc = "save"
    /\ Failed
    /\ UNCHANGED <<now, resp, wfDeadline, repoBill, repoItems, svc>>
    /\ svcResp' = NoResp
    /\ UNCHANGED auxVars

\* an attempt that runs its statement and reports the result
ActivityAttemptRuns ==
    /\ pc = "activity" \/ pc = "save"
    /\ LET r == RunActivity IN
        /\ repoBill' = r.row
        /\ repoItems' = r.rows
        /\ IF r.err THEN Failed ELSE Resume(FALSE)
    /\ UNCHANGED <<now, resp, wfDeadline, svc>>
    /\ svcResp' = NoResp
    /\ UNCHANGED auxVars

\* an attempt that runs its statement and whose result is lost (for
\* CloseBill also: the GetBillByID after the UPDATE fails)
ActivityAttemptLost ==
    /\ pc = "activity" \/ pc = "save"
    /\ LET r == RunActivity IN
        /\ repoBill' = r.row
        /\ repoItems' = r.rows
    /\ Failed
    /\ UNCHANGED <<now, resp, wfDeadline, svc>>
    /\ svcResp' = NoResp
    /\ UNCHANGED auxVars

Next ==
    \/ \E req \in Requests, startOk \in BOOLEAN : CreateBill(req, startOk)
    \/ SignalAddLineItem
    \/ SignalCloseBill
    \/ TimerFire
    \/ Tick
    \/ WorkflowTimeoutExpires
    \/ SelectAddLineItem
    \/ SelectCloseBill
    \/ SelectTimer
    \/ ActivityAttemptError
    \/ ActivityAttemptRuns
    \/ ActivityAttemptLost

Spec == Init /\ [][Next]_vars

\* time passes in a run where no execution timeout is imposed
TickLive ==
    /\ Running
    /\ now < MaxTime
    /\ ~(periodEndTimer.state = "armed" /\ now >= periodEndTimer.at)
    /\ now' = now + 1
    /\ UNCHANGED <<pc, resp, bill, wfDeadline, addLineItemCh, closeBillCh, periodEndTimer,
                   readyBranch, queryHandler, act, repoBill, repoItems, hist, svc>>
    /\ svcResp' = NoResp
    /\ UNCHANGED auxVars

ActivityAttempt == ActivityAttemptError \/ ActivityAttemptRuns \/ ActivityAttemptLost

NextLive ==
    \/ \E req \in Requests, startOk \in BOOLEAN : CreateBill(req, startOk)
    \/ SignalAddLineItem
    \/ SignalCloseBill
    \/ TimerFire
    \/ TickLive
    \/ SelectAddLineItem
    \/ SelectCloseBill
    \/ SelectTimer
    \/ ActivityAttemptError
    \/ ActivityAttemptRuns
    \/ ActivityAttemptLost

\* The workflow taken alone, under the scheduling the substrate provides: the
\* clock advances, a due timer fires, an activity in flight is attempted (so
\* it returns, with success or after MaximumAttempts), a woken Select runs.
SpecLive ==
    /\ Init
    /\ [][NextLive]_vars
    /\ WF_vars(TickLive)
    /\ WF_vars(TimerFire)
    /\ WF_vars(ActivityAttempt)
    /\ WF_vars(SelectAddLineItem)
    /\ WF_vars(SelectCloseBill)
    /\ WF_vars(SelectTimer)

\* ---------------------------------------------------------------- service
\* currencies of the allow-list and the add-line-item requests of a caller;
\* a decimal.Decimal amount is an integer number of thousandths of the
\* currency unit (500 is 0.50)
Currencies == {"USD", "GEL"}
Quantities == {2}
UnitPrices == {500}
AddLineItemRequests == [currency : Currencies, quantity : Quantities, unitPrice : UnitPrices]

\* rates against a common base (USD 1.0, GEL 2.5, both doubled); a snapshot
\* covers every currency, or lacks USD.  For these rates the float64 quotient
\* toX / fromX and its decimal.NewFromFloat are the exact 2.5 and 0.4.
BaseRate == [c \in Currencies |-> IF c = "USD" THEN 2 ELSE 5]
Snapshots == {[c \in D |-> BaseRate[c]] : D \in {Currencies, {"GEL"}}}
\* ExchangeRatesService.GetRates: an error, or a snapshot
RatesOutcomes ==
    {[ok |-> FALSE, rates |-> <<>>]} \cup {[ok |-> TRUE, rates |-> r] : r \in Snapshots}

\* what a read meets: the query is answered or not, the database is up or
\* not, the rates service answers with
GetEnvs ==
    {e \in [queryOk : BOOLEAN, dbOk : BOOLEAN, rates : RatesOutcomes] :
        ~e.dbOk => ~e.rates.ok}

\* decimal digits an amount of the model keeps
AmountDigits == 3
\* money.GetCurrency(c).Fraction: 2 for USD and for GEL
Fraction(c) == 2

RECURSIVE Pow10(_)
Pow10(k) == IF k = 0 THEN 1 ELSE 10 * Pow10(k - 1)

\* n / d to the nearest integer, n and d not negative: half away from zero
RoundDiv(n, d) == (2 * n + d) \div (2 * d)

\* decimal.Round(places) of the amount n / d
Round(n, d, places) ==
    LET unit == Pow10(AmountDigits - places) IN RoundDiv(n, d * unit) * unit

RECURSIVE SumItemsNoQuantity(_, _)
SumItemsNoQuantity(items, c) ==
    IF items = <<>> THEN 0
    ELSE (IF Head(items).currency = c THEN Head(items).unitPrice ELSE 0)
         + SumItemsNoQuantity(Tail(items), c)

RECURSIVE SumItems(_, _)
\* the sum of UnitPrice.Mul(Quantity) over the items of currency c
SumItems(items, c) ==
    IF items = <<>> THEN 0
    ELSE (IF Head(items).currency = c THEN Head(items).unitPrice * Head(items).quantity ELSE 0)
         + SumItems(Tail(items), c)

RECURSIVE SumConverted(_, _, _, _)
\* the other currencies' subtotals converted into currency c:
\* amountOther.Mul(toX / fromX).Round(Fraction) for each, added up
SumConverted(others, c, by, rates) ==
    IF others = {} THEN 0
    ELSE LET o == CHOOSE x \in others : TRUE IN
         Round(by[o] * rates[c], rates[o], Fraction(c))
            + SumConverted(others \ {o}, c, by, rates)

\* Bill.CalculateSum: [err, bill].  A rate is looked up only inside the inner
\* loop, for a pair of distinct currencies of the bill.  On the error the
\* bill keeps b.Total with ByCurrency filled; with two currencies the first
\* pair already fails, so Converted is empty.
CalculateSum(b, rates) ==
    LET items == b.lineItems
        present == {items[i].currency : i \in 1..Len(items)}
        by == [c \in present |-> SumItems(items, c)]
        missing == \E c \in present : \E o \in present \ {c} :
                        o \notin DOMAIN rates \/ c \notin DOMAIN rates
    IN
    IF Len(items) = 0 THEN [err |-> "none", bill |-> b]
    ELSE IF missing
    THEN [err |-> "currency_not_found",
          bill |-> [b EXCEPT !.total = [valid |-> TRUE, byCurrency |-> by,
                                        converted |-> <<>>]]]
    ELSE [err |-> "none",
          bill |-> [b EXCEPT !.total =
                [valid |-> TRUE, byCurrency |-> by,
                 converted |-> [c \in present |->
                        by[c] + SumConverted(present \ {c}, c, by, rates)]]]]

RECURSIVE SortByCreatedAt(_)
\* ORDER BY created_at ASC; ids are minted in created_at order
SortByCreatedAt(rows) ==
    IF rows = <<>> THEN <<>>
    ELSE LET i == CHOOSE k \in 1..Len(rows) : \A j \in 1..Len(rows) : rows[k].id <= rows[j].id IN
         <<rows[i]>> \o SortByCreatedAt(SubSeq(rows, 1, i - 1) \o SubSeq(rows, i + 1, Len(rows)))

\* SQLRepository.GetLineItemsByBillID
GetLineItemsByBillID(rows) == SortByCreatedAt(rows)

\* SQLRepository.GetBillByID: [err, bill]
RepoGetBillByID(row, rows, dbOk) ==
    IF ~dbOk THEN [err |-> "internal", bill |-> NoView]
    ELSE IF ~row.present THEN [err |-> "no_rows", bill |-> NoView]
    ELSE [err |-> "none",
          bill |-> [status |-> row.status, closedAt |-> row.closedAt,
                    lineItems |-> GetLineItemsByBillID(rows), total |-> NoTotal]]

\* the GetBillQuery handler: return bill, nil
GetBillQueryStale(b) ==
    [status |-> BillStatusOpen, closedAt |-> NullTime, lineItems |-> <<>>, total |-> NoTotal]
GetBillQuery(b) ==
    [status |-> b.status, closedAt |-> b.closedAt, lineItems |-> b.lineItems,
     total |-> NoTotal]

\* service.calculateSum: GetRates, whose error is returned as it is, then
\* Bill.CalculateSum
calculateSumIgnoreRatesErr(b, ratesOutcome) ==
    IF ~ratesOutcome.ok THEN [err |-> "none", bill |-> b]
    ELSE CalculateSum(b, ratesOutcome.rates)
calculateSum(b, ratesOutcome) ==
    IF ~ratesOutcome.ok THEN [err |-> "get_rates_error", bill |-> b]
    ELSE CalculateSum(b, ratesOutcome.rates)

\* temporalClient.QueryWorkflow(GetBillQuery): answered when the handler is
\* registered and the substrate reaches the workflow
QueryWorkflow(env) ==
    [ok |-> env.queryOk /\ queryHandler, bill |-> GetBillQuery(bill)]

\* the result of a read: the error, the bill returned, where it came from,
\* whether the query was answered, whether the repository was read, and what
\* GetRates returned ("none": not called)
GetResult(err, b, source, queried, repoRead, env) ==
    [err |-> err, bill |-> b, source |-> source, queried |-> queried,
     repoRead |-> repoRead,
     fetch |-> IF err \in {"not_found", "internal"} THEN "none"
               ELSE IF env.rates.ok THEN "ok" ELSE "error",
     snapshot |-> IF err \notin {"not_found", "internal"} /\ env.rates.ok
                  THEN env.rates.rates ELSE <<>>]

\* service.GetBillByID, the totals: calculateSum, then the bill or the error
WithTotals(b, source, queried, repoRead, env) ==
    LET c == calculateSum(b, env.rates) IN
    IF c.err # "none" THEN GetResult(c.err, NoView, source, queried, repoRead, env)
    ELSE GetResult("none", c.bill, source, queried, repoRead, env)

\* service.GetBillByID, the fallback: read the repository
GetBillFromRepositoryAllNotFound(env, queried) ==
    LET r == RepoGetBillByID(repoBill, repoItems, env.dbOk) IN
    IF r.err # "none"
    THEN GetResult("not_found", NoView, "repository", queried, TRUE, env)
    ELSE WithTotals(r.bill, "repository", queried, TRUE, env)
GetBillFromRepository(env, queried) ==
    LET r == RepoGetBillByID(repoBill, repoItems, env.dbOk) IN
    IF r.err = "no_rows"
    THEN GetResult("not_found", NoView, "repository", queried, TRUE, env)
    ELSE IF r.err # "none"
    THEN GetResult("internal", NoView, "repository", queried, TRUE, env)
    ELSE WithTotals(r.bill, "repository", queried, TRUE, env)

\* service.GetBillByID
GetBillByIDRepositoryFirst(env) ==
    GetBillFromRepository(env, QueryWorkflow(env).ok)
GetBillByID(env) ==
    LET q == QueryWorkflow(env) IN
    IF q.ok THEN WithTotals(q.bill, "workflow", TRUE, FALSE, env)
    ELSE GetBillFromRepository(env, FALSE)

\* service.AddLineItemToBill, after the first get: the error, bill-closed,
\* or go on to the signal
AddLineItemCheckNoClosed(r) == IF r.err # "none" THEN r.err ELSE "signal"
AddLineItemCheck(r) ==
    IF r.err # "none" THEN r.err
    ELSE IF IsClosed(r.bill) THEN "bill_closed"
    ELSE "signal"

\* service.CloseBill, after the first get: the error, the closed bill as is,
\* or go on to the signal
CloseBillCheckAlwaysSignal(r) == IF r.err # "none" THEN r.err ELSE "signal"
CloseBillCheck(r) ==
    IF r.err # "none" THEN r.err
    ELSE IF IsClosed(r.bill) THEN "as_is"
    ELSE "signal"

\* the view service.AddLineItemToBill returns: the re-read bill with the
\* signalled item appended by Bill.AddLineItem
AddLineItemView(view, item) == AddLineItem(view, item).bill

\* the view service.CloseBill returns: the re-read bill marked closed at now
CloseBillViewAsRead(view, at) == view
CloseBillView(view, at) ==
    [view EXCEPT !.status = BillStatusClosed, !.closedAt = SomeTime(at)]

\* what a service call returns, with what it did: r is the result of its
\* last read
Response(op, err, b, r, signalled, item, at) ==
    [op |-> op, err |-> err, bill |-> b, source |-> r.source, queried |-> r.queried,
     repoRead |-> r.repoRead, fetch |-> r.fetch, snapshot |-> r.snapshot,
     signalled |-> signalled, item |-> item, now |-> at]

\* the signal could not be sent: no read to report
NoRead == [source |-> "none", queried |-> FALSE, repoRead |-> FALSE, fetch |-> "none",
           snapshot |-> <<>>]

\* a caller holds the id of the bill once create-bill has answered
Created == resp = "ok"

\* get_bill: service.GetBillByID from start to return
SvcGetBill ==
    /\ Created
    /\ svc = NoSvc
    /\ svcResp = NoResp
    /\ \E env \in GetEnvs :
        LET r == GetBillByID(env) IN
        svcResp' = Response("get", r.err, r.bill, r, FALSE, NoSvc.item, 0)
    /\ UNCHANGED <<now, pc, resp, bill, wfDeadline, addLineItemCh, closeBillCh,
                   periodEndTimer, readyBranch, queryHandler, act, repoBill, repoItems,
                   hist, svc>>
    /\ UNCHANGED auxVars

\* service.AddLineItemToBill up to the signal: get the bill, refuse a closed
\* one, build the line item
SvcAddLineItemGet ==
    /\ Created
    /\ svc = NoSvc
    /\ svcResp = NoResp
    /\ hist.nextId <= MaxItems
    /\ \E req \in AddLineItemRequests, env \in GetEnvs :
        LET r == GetBillByID(env)
            next == AddLineItemCheck(r) IN
        IF next # "signal"
        THEN /\ svcResp' = Response("add", next, NoView, r, FALSE, NoSvc.item, 0)
             /\ UNCHANGED <<svc, hist>>
        ELSE /\ svc' = [op |-> "add", step |-> "signal",
                        item |-> [id |-> hist.nextId, currency |-> req.currency,
                                  quantity |-> req.quantity, unitPrice |-> req.unitPrice],
                        now |-> now]
             /\ hist' = [hist EXCEPT !.nextId = @ + 1]
             /\ svcResp' = NoResp
    /\ UNCHANGED <<now, pc, resp, bill, wfDeadline, addLineItemCh, closeBillCh,
                   periodEndTimer, readyBranch, queryHandler, act, repoBill, repoItems>>
    /\ UNCHANGED auxVars

\* service.AddLineItemToBill: SignalWorkflow(AddLineItemSignal); it fails
\* when the workflow no longer runs or the substrate is unavailable
SvcAddLineItemSignal ==
    /\ svc.op = "add"
    /\ svc.step = "signal"
    /\ \E ok \in BOOLEAN :
        IF ok /\ Running
        THEN /\ addLineItemCh' = Append(addLineItemCh, svc.item)
             /\ readyBranch' = IF Blocked THEN "add" ELSE readyBranch
             /\ svc' = [svc EXCEPT !.step = "reread"]
             /\ svcResp' = NoResp
        ELSE /\ svcResp' = Response("add", "internal", NoView, NoRead, FALSE, svc.item, 0)
             /\ svc' = NoSvc
             /\ UNCHANGED <<addLineItemCh, readyBranch>>
    /\ UNCHANGED <<now, pc, resp, bill, wfDeadline, closeBillCh, periodEndTimer,
                   queryHandler, act, repoBill, repoItems, hist>>
    /\ UNCHANGED auxVars

\* service.AddLineItemToBill after the signal: get the bill again, append the
\* item to the view, return
SvcAddLineItemReread ==
    /\ svc.op = "add"
    /\ svc.step = "reread"
    /\ \E env \in GetEnvs :
        LET r == GetBillByID(env) IN
        IF r.err # "none"
        THEN svcResp' = Response("add", r.err, NoView, r, TRUE, svc.item, 0)
        ELSE svcResp' = Response("add", "none", AddLineItemView(r.bill, svc.item), r,
                                 TRUE, svc.item, 0)
    /\ svc' = NoSvc
    /\ UNCHANGED <<now, pc, resp, bill, wfDeadline, addLineItemCh, closeBillCh,
                   periodEndTimer, readyBranch, queryHandler, act, repoBill, repoItems,
                   hist>>
    /\ UNCHANGED auxVars

\* service.CloseBill up to the signal: get the bill, return a closed one as
\* is, take now
SvcCloseBillGet ==
    /\ Created
    /\ svc = NoSvc
    /\ svcResp = NoResp
    /\ hist.closeSignals < MaxCloseSignals
    /\ \E env \in GetEnvs :
        LET r == GetBillByID(env)
            next == CloseBillCheck(r) IN
        IF next = "as_is"
        THEN /\ svcResp' = Response("close", "none", r.bill, r, FALSE, NoSvc.item, 0)
             /\ UNCHANGED svc
        ELSE IF next # "signal"
        THEN /\ svcResp' = Response("close", next, NoView, r, FALSE, NoSvc.item, 0)
             /\ UNCHANGED svc
        ELSE /\ svc' = [op |-> "close", step |-> "signal", item |-> NoSvc.item, now |-> now]
             /\ svcResp' = NoResp
    /\ UNCHANGED <<now, pc, resp, bill, wfDeadline, addLineItemCh, closeBillCh,
                   periodEndTimer, readyBranch, queryHandler, act, repoBill, repoItems,
                   hist>>
    /\ UNCHANGED auxVars

\* service.CloseBill: SignalWorkflow(CloseBillSignal) with RequestedAt: now
SvcCloseBillSignal ==
    /\ svc.op = "close"
    /\ svc.step = "signal"
    /\ \E ok \in BOOLEAN :
        IF ok /\ Running
        THEN /\ closeBillCh' = Append(closeBillCh, svc.now)
             /\ readyBranch' = IF Blocked THEN "close" ELSE readyBranch
             /\ svc' = [svc EXCEPT !.step = "reread"]
             /\ hist' = [hist EXCEPT !.closeSignals = @ + 1]
             /\ svcResp' = NoResp
        ELSE /\ svcResp' = Response("close", "internal", NoView, NoRead, FALSE, NoSvc.item,
                                    svc.now)
             /\ svc' = NoSvc
             /\ UNCHANGED <<closeBillCh, readyBranch, hist>>
    /\ UNCHANGED <<now, pc, resp, bill, wfDeadline, addLineItemCh, periodEndTimer,
                   queryHandler, act, repoBill, repoItems>>
    /\ UNCHANGED auxVars

\* service.CloseBill after the signal: get the bill again, mark the view
\* closed, return
SvcCloseBillReread ==
    /\ svc.op = "close"
    /\ svc.step = "reread"
    /\ \E env \in GetEnvs :
        LET r == GetBillByID(env) IN
        IF r.err # "none"
        THEN svcResp' = Response("close", r.err, NoView, r, TRUE, NoSvc.item, svc.now)
        ELSE svcResp' = Response("close", "none", CloseBillView(r.bill, svc.now), r,
                                 TRUE, NoSvc.item, svc.now)
    /\ svc' = NoSvc
    /\ UNCHANGED <<now, pc, resp, bill, wfDeadline, addLineItemCh, closeBillCh,
                   periodEndTimer, readyBranch, queryHandler, act, repoBill, repoItems,
                   hist>>
    /\ UNCHANGED auxVars

\* the caller takes the response of its call; it calls again after that
SvcReturn ==
    /\ svcResp # NoResp
    /\ svcResp' = NoResp
    /\ UNCHANGED <<now, pc, resp, bill, wfDeadline, addLineItemCh, closeBillCh,
                   periodEndTimer, readyBranch, queryHandler, act, repoBill, repoItems,
                   hist, svc>>
    /\ UNCHANGED auxVars

\* the create-bill request of the service runs: a period that ends at once
SvcRequests ==
    {req \in Requests : /\ req.customerID = "c1"
                        /\ req.periodStart = StartTime
                        /\ req.periodEnd = StartTime}

\* the service and the workflow together, within the execution timeout: every
\* signal is sent by a service call, whose reads meet the workflow as it runs
NextSvc ==
    \/ \E req \in SvcRequests, startOk \in BOOLEAN : CreateBill(req, startOk)
    \/ SvcGetBill
    \/ SvcAddLineItemGet
    \/ SvcAddLineItemSignal
    \/ SvcAddLineItemReread
    \/ SvcCloseBillGet
    \/ SvcCloseBillSignal
    \/ SvcCloseBillReread
    \/ SvcReturn
    \/ TimerFire
    \/ Tick
    \/ SelectAddLineItem
    \/ SelectCloseBill
    \/ SelectTimer
    \/ ActivityAttemptError
    \/ ActivityAttemptRuns
    \/ ActivityAttemptLost

SpecSvc == Init /\ [][NextSvc]_vars

\* ------------------------------------------------------- service, liveness
\* the service and the workflow in runs where no execution timeout is
\* imposed and every activity attempt runs its statement and reports the
\* result, under the scheduling the substrate provides
NextSvcLive ==
    \/ \E req \in SvcRequests, startOk \in BOOLEAN : CreateBill(req, startOk)
    \/ SvcGetBill
    \/ SvcAddLineItemGet
    \/ SvcAddLineItemSignal
    \/ SvcAddLineItemReread
    \/ SvcCloseBillGet
    \/ SvcCloseBillSignal
    \/ SvcCloseBillReread
    \/ SvcReturn
    \/ TimerFire
    \/ TickLive
    \/ SelectAddLineItem
    \/ SelectCloseBill
    \/ SelectTimer
    \/ ActivityAttemptRuns

SpecSvcLive ==
    /\ Init
    /\ [][NextSvcLive]_vars
    /\ WF_vars(TickLive)
    /\ WF_vars(TimerFire)
    /\ WF_vars(ActivityAttemptRuns)
    /\ WF_vars(SelectAddLineItem)
    /\ WF_vars(SelectCloseBill)
    /\ WF_vars(SelectTimer)

\* ---------------------------------------------------------- CalculateSum
\* Bill.CalculateSum on its own: the bills it is applied to have up to
\* MaxCalcItems line items, of quantity 1 or 2 and unit price 0.005, 0.25 or
\* 10.00, and the rates are a snapshot of Snapshots
CalcQuantities == {1, 2}
CalcUnitPrices == {5, 250, 10000}
CalcItems == [currency : Currencies, quantity : CalcQuantities, unitPrice : CalcUnitPrices]

\* the line items of a bill: ids in the order of the list
CalcLineItems(its) ==
    [i \in 1..Len(its) |-> [id |-> i, currency |-> its[i].currency,
                            quantity |-> its[i].quantity, unitPrice |-> its[i].unitPrice]]

CalcBills ==
    {CalcLineItems(its) : its \in UNION {[1..n -> CalcItems] : n \in 0..MaxCalcItems}}

InitCalc ==
    /\ now = StartTime
    /\ pc = "none"
    /\ resp = "none"
    /\ bill = NoBill
    /\ wfDeadline = 0
    /\ addLineItemCh = <<>>
    /\ closeBillCh = <<>>
    /\ periodEndTimer = NoTimer
    /\ readyBranch = "none"
    /\ queryHandler = FALSE
    /\ act = NoAct
    /\ repoBill = NoRow
    /\ repoItems = <<>>
    /\ hist = NoHist
    /\ svc = NoSvc
    /\ svcResp = NoResp
    /\ \E items \in CalcBills, rates \in Snapshots :
            calc = [NoCalc EXCEPT !.items = items, !.rates = rates]
    /\ redelivered = 0
    /\ repoCall = NoRepoCall
    /\ ratesClock = TTL
    /\ exr = NoRates
    /\ kv = NoEntry
    /\ call = [p \in Callers |-> NoCall]
    /\ ratesRet = NoRet
    /\ prov = NoProv

\* b.CalculateSum(rates) on an open bill with the line items drawn
ApplyCalculateSum ==
    /\ ~calc.applied
    /\ LET b == [status |-> BillStatusOpen, closedAt |-> NullTime,
                 lineItems |-> calc.items, total |-> NoTotal]
           r == CalculateSum(b, calc.rates)
       IN calc' = [calc EXCEPT !.applied = TRUE, !.err = r.err, !.total = r.bill.total]
    /\ UNCHANGED <<billVars, redelivered, repoCall, ratesVars>>

NextCalc == ApplyCalculateSum

SpecCalc == InitCalc /\ [][NextCalc]_vars

\* -------------------------------------------------------- exchange rates
\* ext_services.service: GetRates and updateRates, statement by statement,
\* called by the goroutines of Callers on the one service of the process; no
\* lock guards s.rates and s.updatedAt

\* time.Now().Before(s.updatedAt.Add(ttl))
Fresh(e, clock) == clock < e.updatedAt + TTL

\* cache.Get(cacheKey) finds the entry: it is there and has not expired
\* (DefaultExpiry: ExpireIn(TTL))
CacheHolds(entry, clock) == entry.present /\ clock < entry.expireAt

\* the in-process snapshot is within TTL of the instant the provider served it
WithinTTL(e, clock) ==
    /\ e.rates # 0
    /\ clock < prov.produced[e.rates] + TTL

\* updateRates, the timestamp of a fetched snapshot: time.Now().Add(ttl)
FetchedUpdatedAt(clock) == clock + TTL

\* updateRates when fetchExchangeRates fails: return err, s as it is
AfterFetchErrorReset(e) == NoRates
AfterFetchError(e) == e

\* the clock of the service advances
RatesTick ==
    /\ ratesClock < MaxRatesTime
    /\ ratesClock' = ratesClock + 1
    /\ UNCHANGED <<billVars, calc, redelivered, repoCall, exr, kv, call, prov>>
    /\ ratesRet' = NoRet

\* a goroutine calls GetRates, which calls updateRates: the freshness test;
\* fresh returns nil and GetRates goes on to build its result
GetRatesCall(p) ==
    /\ call[p].pc = "idle"
    /\ prov.calls < MaxRatesCalls
    /\ call' = [call EXCEPT ![p] =
            [NoCall EXCEPT !.pc = IF Fresh(exr, ratesClock) THEN "readRates" ELSE "cacheGet",
                           !.checkAt = ratesClock,
                           !.within = WithinTTL(exr, ratesClock),
                           !.cacheHeld = CacheHolds(kv, ratesClock)]]
    /\ prov' = [prov EXCEPT !.calls = @ + 1]
    /\ UNCHANGED <<billVars, calc, redelivered, repoCall, ratesClock, exr, kv>>
    /\ ratesRet' = NoRet

\* updateRates: s.cache.Get; an error of the cache counts as a miss
UpdateRatesCacheGet(p) ==
    /\ call[p].pc = "cacheGet"
    /\ \E ok \in BOOLEAN :
        IF ok /\ CacheHolds(kv, ratesClock)
        THEN call' = [call EXCEPT ![p] =
                [@ EXCEPT !.pc = "adoptRates", !.readCache = TRUE,
                          !.data = [rates |-> kv.rates, updatedAt |-> kv.updatedAt]]]
        ELSE call' = [call EXCEPT ![p] = [@ EXCEPT !.pc = "fetch", !.readCache = TRUE]]
    /\ UNCHANGED <<billVars, calc, redelivered, repoCall, ratesClock, exr, kv, prov>>
    /\ ratesRet' = NoRet

\* updateRates: s.rates = data.Rates
UpdateRatesAdoptRates(p) ==
    /\ call[p].pc = "adoptRates"
    /\ exr' = [exr EXCEPT !.rates = call[p].data.rates]
    /\ call' = [call EXCEPT ![p] = [@ EXCEPT !.pc = "adoptUpdatedAt"]]
    /\ UNCHANGED <<billVars, calc, redelivered, repoCall, ratesClock, kv, prov>>
    /\ ratesRet' = NoRet

\* updateRates: s.updatedAt = data.UpdatedAt; return nil
UpdateRatesAdoptUpdatedAt(p) ==
    /\ call[p].pc = "adoptUpdatedAt"
    /\ exr' = [exr EXCEPT !.updatedAt = call[p].data.updatedAt]
    /\ call' = [call EXCEPT ![p] = [@ EXCEPT !.pc = "readRates", !.data = NoRates]]
    /\ UNCHANGED <<billVars, calc, redelivered, repoCall, ratesClock, kv, prov>>
    /\ ratesRet' = NoRet

\* fetchExchangeRates answers 200 with a snapshot the provider produces now
FetchOK(p) ==
    /\ call[p].pc = "fetch"
    /\ prov.fetches < MaxFetches
    /\ LET v == prov.fetches + 1 IN
        /\ prov' = [prov EXCEPT !.fetches = v,
                                !.produced = Append(@, ratesClock),
                                !.stamp = Append(@, 0)]
        /\ call' = [call EXCEPT ![p] =
                [@ EXCEPT !.pc = "setRates", !.fetched = TRUE, !.data = [rates |-> v,
                                                                       updatedAt |-> 0]]]
    /\ UNCHANGED <<billVars, calc, redelivered, repoCall, ratesClock, exr, kv>>
    /\ ratesRet' = NoRet

\* fetchExchangeRates fails (a status other than 200, the timeout of the
\* request, a body that does not decode): updateRates and GetRates return
\* the error and no snapshot
FetchError(p) ==
    /\ call[p].pc = "fetch"
    /\ exr' = AfterFetchError(exr)
    /\ call' = [call EXCEPT ![p] = NoCall]
    /\ ratesRet' = Returned(p, [call[p] EXCEPT !.fetched = TRUE], TRUE, 0, 0, ratesClock)
    /\ UNCHANGED <<billVars, calc, redelivered, repoCall, ratesClock, kv, prov>>

\* updateRates: s.rates = exr.Rates
UpdateRatesSetRates(p) ==
    /\ call[p].pc = "setRates"
    /\ exr' = [exr EXCEPT !.rates = call[p].data.rates]
    /\ call' = [call EXCEPT ![p] = [@ EXCEPT !.pc = "setUpdatedAt"]]
    /\ UNCHANGED <<billVars, calc, redelivered, repoCall, ratesClock, kv, prov>>
    /\ ratesRet' = NoRet

\* updateRates: s.updatedAt = time.Now().Add(ttl)
UpdateRatesSetUpdatedAt(p) ==
    /\ call[p].pc = "setUpdatedAt"
    /\ exr' = [exr EXCEPT !.updatedAt = FetchedUpdatedAt(ratesClock)]
    /\ prov' = [prov EXCEPT !.stamp[call[p].data.rates] = FetchedUpdatedAt(ratesClock)]
    /\ call' = [call EXCEPT ![p] = [@ EXCEPT !.pc = "cacheSet", !.data = NoRates]]
    /\ UNCHANGED <<billVars, calc, redelivered, repoCall, ratesClock, kv>>
    /\ ratesRet' = NoRet

\* updateRates: s.cache.Set(cacheKey, RatesData{s.rates, s.updatedAt}); its
\* error is only logged; return nil
UpdateRatesCacheSet(p) ==
    /\ call[p].pc = "cacheSet"
    /\ \E ok \in BOOLEAN :
        kv' = IF ok THEN [present |-> TRUE, rates |-> exr.rates,
                          updatedAt |-> exr.updatedAt, expireAt |-> ratesClock + TTL]
              ELSE kv
    /\ call' = [call EXCEPT ![p] = [@ EXCEPT !.pc = "readRates"]]
    /\ UNCHANGED <<billVars, calc, redelivered, repoCall, ratesClock, exr, prov>>
    /\ ratesRet' = NoRet

\* GetRates: &models.RatesData{Rates: s.rates, ...
GetRatesReadRates(p) ==
    /\ call[p].pc = "readRates"
    /\ call' = [call EXCEPT ![p] = [@ EXCEPT !.pc = "readUpdatedAt", !.rates = exr.rates]]
    /\ UNCHANGED <<billVars, calc, redelivered, repoCall, ratesClock, exr, kv, prov>>
    /\ ratesRet' = NoRet

\* GetRates: ... UpdatedAt: s.updatedAt}, nil
GetRatesReadUpdatedAt(p) ==
    /\ call[p].pc = "readUpdatedAt"
    /\ call' = [call EXCEPT ![p] = NoCall]
    /\ ratesRet' = Returned(p, call[p], FALSE, call[p].rates, exr.updatedAt, ratesClock)
    /\ UNCHANGED <<billVars, calc, redelivered, repoCall, ratesClock, exr, kv, prov>>

\* the process starts again: NewConversionService, with the shared cache as
\* it is
NewConversionService ==
    /\ \A p \in Callers : call[p].pc = "idle"
    /\ prov.restarts < MaxRestarts
    /\ exr # NoRates
    /\ exr' = NoRates
    /\ prov' = [prov EXCEPT !.restarts = @ + 1]
    /\ UNCHANGED <<billVars, calc, redelivered, repoCall, ratesClock, kv, call>>
    /\ ratesRet' = NoRet

NextRates ==
    \/ RatesTick
    \/ NewConversionService
    \/ \E p \in Callers : GetRatesCall(p)
    \/ \E p \in Callers : UpdateRatesCacheGet(p)
    \/ \E p \in Callers : UpdateRatesAdoptRates(p)
    \/ \E p \in Callers : UpdateRatesAdoptUpdatedAt(p)
    \/ \E p \in Callers : FetchOK(p)
    \/ \E p \in Callers : FetchError(p)
    \/ \E p \in Callers : UpdateRatesSetRates(p)
    \/ \E p \in Callers : UpdateRatesSetUpdatedAt(p)
    \/ \E p \in Callers : UpdateRatesCacheSet(p)
    \/ \E p \in Callers : GetRatesReadRates(p)
    \/ \E p \in Callers : GetRatesReadUpdatedAt(p)

SpecRates == Init /\ [][NextRates]_vars

\* ------------------------------------------------------------ repository
\* the repository on its own: its calls in any order, on the one bill and
\* the line items 1..MaxItems
RepoOpCreateBill ==
    /\ LET r == RepoCreateBill(repoBill, [status |-> BillStatusOpen]) IN
        /\ repoBill' = r.row
        /\ repoCall' = [op |-> "create", at |-> 0, id |-> 0, err |-> r.err]
    /\ UNCHANGED <<now, pc, resp, bill, wfDeadline, addLineItemCh, closeBillCh,
                   periodEndTimer, readyBranch, queryHandler, act, repoItems, hist,
                   svc, svcResp, calc, redelivered, ratesVars>>

RepoOpCloseBill ==
    /\ \E at \in Times \ {0} :
        LET r == RepoCloseBill(repoBill, at) IN
        /\ repoBill' = r.row
        /\ repoCall' = [op |-> "close", at |-> at, id |-> 0, err |-> r.err]
    /\ UNCHANGED <<now, pc, resp, bill, wfDeadline, addLineItemCh, closeBillCh,
                   periodEndTimer, readyBranch, queryHandler, act, repoItems, hist,
                   svc, svcResp, calc, redelivered, ratesVars>>

RepoOpAddLineItemToBill ==
    /\ \E id \in 1..MaxItems :
        LET r == RepoAddLineItemToBill(repoBill, repoItems, [id |-> id]) IN
        /\ repoItems' = r.rows
        /\ repoCall' = [op |-> "add", at |-> 0, id |-> id, err |-> r.err]
    /\ UNCHANGED <<now, pc, resp, bill, wfDeadline, addLineItemCh, closeBillCh,
                   periodEndTimer, readyBranch, queryHandler, act, repoBill, hist,
                   svc, svcResp, calc, redelivered, ratesVars>>

NextRepo ==
    \/ RepoOpCreateBill
    \/ RepoOpCloseBill
    \/ RepoOpAddLineItemToBill

SpecRepo == Init /\ [][NextRepo]_vars

\* ----------------------------------------------------------- redelivery
\* at-least-once delivery: the substrate delivers an add-line-item signal it
\* has delivered before once more, with the same line item
RedeliverAddLineItem ==
    /\ Running
    /\ redelivered < MaxRedeliveries
    /\ \E id \in 1..(hist.nextId - 1) :
        /\ addLineItemCh' = Append(addLineItemCh, [id |-> id])
        /\ readyBranch' = IF Blocked THEN "add" ELSE readyBranch
    /\ redelivered' = redelivered + 1
    /\ UNCHANGED <<now, pc, resp, bill, wfDeadline, closeBillCh, periodEndTimer,
                   queryHandler, act, repoBill, repoItems, hist, svc, svcResp, calc,
                   repoCall, ratesVars>>

NextRedeliver ==
    \/ \E req \in SvcRequests, startOk \in BOOLEAN : CreateBill(req, startOk)
    \/ SignalAddLineItem
    \/ RedeliverAddLineItem
    \/ SignalCloseBill
    \/ TimerFire
    \/ Tick
    \/ WorkflowTimeoutExpires
    \/ SelectAddLineItem
    \/ SelectCloseBill
    \/ SelectTimer
    \/ ActivityAttemptError
    \/ ActivityAttemptRuns
    \/ ActivityAttemptLost

SpecRedeliver == Init /\ [][NextRedeliver]_vars

\* ---------------------------------------------------------------- handlers
\* the HTTP handlers with every request a caller can send: the request is
\* validated, then handed to the service

\* Billing.Validation.AllowedCurrencies
AllowedCurrencies == Currencies

\* the add-line-item requests of any caller: description, currency, quantity
\* (units) and unit_price (thousandths)
Descriptions == {"", "d", "ddd"}
AnyCurrencies == AllowedCurrencies \cup {"EUR"}
AnyQuantities == {-1, 0, 2, 4}
AnyUnitPrices == {-500, 500, 3500}
\* an admissible request, and the requests that differ from it in one field,
\* or in quantity and unit_price at their limits
AdmissibleRequest ==
    [description |-> "d", currency |-> "USD", quantity |-> 2, unitPrice |-> 500]
AnyAddLineItemRequests ==
    {[AdmissibleRequest EXCEPT !.description = d] : d \in Descriptions}
    \cup {[AdmissibleRequest EXCEPT !.currency = c] : c \in AnyCurrencies}
    \cup {[AdmissibleRequest EXCEPT !.quantity = q] : q \in AnyQuantities}
    \cup {[AdmissibleRequest EXCEPT !.unitPrice = u] : u \in AnyUnitPrices}
    \cup {[AdmissibleRequest EXCEPT !.currency = "GEL", !.quantity = MaxQuantity,
                                   !.unitPrice = MaxUnitPrice]}

\* Currency.Validate
CurrencyValidate(c) == IF c \in AllowedCurrencies THEN "ok" ELSE "invalid_argument"

\* ValidateAddLineItemRequest: "ok" or the error
ValidateAddLineItemRequestNoTotal(req) ==
    IF req.description = "" THEN "invalid_argument"
    ELSE IF Len(req.description) > MaxDescriptionLength THEN "invalid_argument"
    ELSE IF CurrencyValidate(req.currency) # "ok" THEN CurrencyValidate(req.currency)
    ELSE IF req.quantity <= 0 THEN "invalid_argument"
    ELSE IF req.quantity > MaxQuantity THEN "invalid_argument"
    ELSE IF req.unitPrice < 0 THEN "invalid_argument"
    ELSE IF req.unitPrice > MaxUnitPrice THEN "invalid_argument"
    ELSE "ok"
ValidateAddLineItemRequest(req) ==
    IF req.description = "" THEN "invalid_argument"
    ELSE IF Len(req.description) > MaxDescriptionLength THEN "invalid_argument"
    ELSE IF CurrencyValidate(req.currency) # "ok" THEN CurrencyValidate(req.currency)
    ELSE IF req.quantity <= 0 THEN "invalid_argument"
    ELSE IF req.quantity > MaxQuantity THEN "invalid_argument"
    ELSE IF req.unitPrice < 0 THEN "invalid_argument"
    ELSE IF req.unitPrice > MaxUnitPrice THEN "invalid_argument"
    ELSE IF req.quantity * req.unitPrice > MaxTotalAmount THEN "invalid_argument"
    ELSE "ok"

\* what a handler returns, with the request it was given: the response of
\* the service call, or the error of the validation and no call
HandlerResponse(r, req) ==
    [op |-> r.op, err |-> r.err, bill |-> r.bill, source |-> r.source,
     queried |-> r.queried, repoRead |-> r.repoRead, fetch |-> r.fetch,
     snapshot |-> r.snapshot, signalled |-> r.signalled, item |-> r.item, now |-> r.now,
     request |-> req]

\* Handler.CreateBill: ValidateCreateBillRequest, then service.CreateBill
HandlerCreateBill(req, startOk) ==
    /\ pc = "none"
    /\ svc = NoSvc
    /\ svcResp = NoResp
    /\ IF ValidateCreateBillRequest(req, now) # "ok"
       THEN /\ resp' = "invalid_argument"
            /\ svcResp' = HandlerResponse(Response("create", "invalid_argument", NoView,
                                                    NoRead, FALSE, NoSvc.item, 0), req)
            /\ UNCHANGED <<pc, bill, wfDeadline, act, hist>>
       ELSE IF ~startOk
       THEN /\ resp' = "internal"
            /\ svcResp' = HandlerResponse(Response("create", "internal", NoView, NoRead,
                                                    FALSE, NoSvc.item, now), req)
            /\ UNCHANGED <<pc, bill, wfDeadline, act, hist>>
       ELSE /\ resp' = "ok"
            /\ svcResp' = HandlerResponse(Response("create", "none", NoView, NoRead,
                                                    FALSE, NoSvc.item, now), req)
            /\ bill' = [status |-> BillStatusOpen, periodStart |-> req.periodStart,
                        periodEnd |-> req.periodEnd, createdAt |-> now,
                        closedAt |-> NullTime, lineItems |-> <<>>]
            /\ wfDeadline' = now + WorkflowTimeout(req)
            /\ pc' = "save"
            /\ act' = Started("SaveBill", NoAct.item, 0)
            /\ hist' = [hist EXCEPT !.started = Append(@, "SaveBill")]
    /\ UNCHANGED <<now, addLineItemCh, closeBillCh, periodEndTimer, readyBranch,
                   queryHandler, repoBill, repoItems, svc>>
    /\ UNCHANGED auxVars

\* Handler.AddLineItem: ValidateAddLineItemRequest, then
\* service.AddLineItemToBill up to the signal; the bill id of the path is
\* the one bill, created or not
HandlerAddLineItem(req) ==
    /\ svc = NoSvc
    /\ svcResp = NoResp
    /\ hist.nextId <= MaxItems
    /\ IF ValidateAddLineItemRequest(req) # "ok"
       THEN /\ svcResp' = HandlerResponse(Response("add", ValidateAddLineItemRequest(req),
                                                    NoView, NoRead, FALSE, NoSvc.item, 0),
                                           req)
            /\ UNCHANGED <<svc, hist>>
       ELSE \E env \in GetEnvs :
            LET r == GetBillByID(env)
                next == AddLineItemCheck(r) IN
            IF next # "signal"
            THEN /\ svcResp' = HandlerResponse(Response("add", next, NoView, r, FALSE,
                                                         NoSvc.item, 0), req)
                 /\ UNCHANGED <<svc, hist>>
            ELSE /\ svc' = [op |-> "add", step |-> "signal",
                            item |-> [id |-> hist.nextId, currency |-> req.currency,
                                      quantity |-> req.quantity,
                                      unitPrice |-> req.unitPrice],
                            now |-> now]
                 /\ hist' = [hist EXCEPT !.nextId = @ + 1]
                 /\ svcResp' = NoResp
    /\ UNCHANGED <<now, pc, resp, bill, wfDeadline, addLineItemCh, closeBillCh,
                   periodEndTimer, readyBranch, queryHandler, act, repoBill, repoItems>>
    /\ UNCHANGED auxVars

\* the create-bill requests of any caller: the one of the service runs, and
\* every request that breaks a rule at StartTime
AnyRequests ==
    SvcRequests \cup {req \in Requests : ValidateCreateBillRequest(req, StartTime) # "ok"}

\* the handlers, the service and the workflow together
NextHandlers ==
    \/ \E req \in AnyRequests, startOk \in BOOLEAN : HandlerCreateBill(req, startOk)
    \/ \E req \in AnyAddLineItemRequests : HandlerAddLineItem(req)
    \/ SvcAddLineItemSignal
    \/ SvcAddLineItemReread
    \/ SvcCloseBillGet
    \/ SvcCloseBillSignal
    \/ SvcCloseBillReread
    \/ SvcReturn
    \/ TimerFire
    \/ Tick
    \/ SelectAddLineItem
    \/ SelectCloseBill
    \/ SelectTimer
    \/ ActivityAttemptError
    \/ ActivityAttemptRuns
    \/ ActivityAttemptLost

SpecHandlers == Init /\ [][NextHandlers]_vars

\* ------------------------------------------------------------- properties
ItemIDs(items) == {items[i].id : i \in 1..Len(items)}

\* the activities started by this step
NewlyStarted == {hist'.started[i] : i \in (Len(hist.started) + 1)..Len(hist'.started)}

\* C1: once the in-memory bill is closed, no step appends a line item to it or
\* starts an AddLineItemToBill activity; an item signalled while the in-memory
\* bill was closed is never in the in-memory bill (what the get-bill query
\* returns) nor in the repository.
C1_NoAddAfterClosed ==
    /\ [][bill.status = BillStatusClosed =>
            /\ bill'.lineItems = bill.lineItems
            /\ "AddLineItemToBill" \notin NewlyStarted]_vars
    /\ [](\A id \in hist.afterClosed :
            id \notin ItemIDs(bill.lineItems) /\ id \notin RowIDs(repoItems))

C1_Witness ==
    /\ pc = "completed"
    /\ hist.afterClosed # {}
    /\ addLineItemCh # <<>>
    /\ bill.lineItems # <<>>

\* C2: an add-line-item signal that arrived after a close-bill signal is never
\* appended nor persisted, and when the workflow has completed every
\* add-line-item signal that arrived before any close-bill signal and before
\* the timer fired has been appended and handed to AddLineItemToBill.
C2_SignalOrderDecides ==
    /\ \A id \in hist.afterCloseSignal :
            id \notin ItemIDs(bill.lineItems) /\ id \notin RowIDs(repoItems)
    /\ pc = "completed" => hist.beforeClose \subseteq ItemIDs(bill.lineItems)

\* C3: for the in-memory bill and for the persisted row alike, closed_at is
\* set if and only if status = closed.
C3_ClosedAtIffClosed ==
    /\ bill.status # "none" => (bill.closedAt.valid <=> bill.status = BillStatusClosed)
    /\ repoBill.present => (repoBill.closedAt.valid <=> repoBill.status = BillStatusClosed)

C3_Witness ==
    /\ bill.status = BillStatusClosed
    /\ repoBill.present
    /\ repoBill.status = BillStatusClosed

\* C4: closed is terminal.  Once the in-memory bill (or the persisted row) is
\* closed no step changes its status or closed_at and no CloseBill activity is
\* started; Bill.Close on a closed bill returns false and the bill unchanged.
C4_ClosedIsTerminal ==
    /\ [][bill.status = BillStatusClosed =>
            /\ bill'.status = BillStatusClosed
            /\ bill'.closedAt = bill.closedAt
            /\ "CloseBill" \notin NewlyStarted]_vars
    /\ [][(repoBill.present /\ repoBill.status = BillStatusClosed) =>
            repoBill' = repoBill]_vars
    /\ [](bill.status = BillStatusClosed =>
            \A t \in Times : Close(bill, t) = [success |-> FALSE, bill |-> bill])

C4_Witness ==
    /\ bill.status = BillStatusClosed
    /\ closeBillCh # <<>>
    /\ periodEndTimer.state = "fired"
    /\ pc = "completed"

\* C5: line items are append-only.  Every step leaves the in-memory list
\* unchanged or extends it by one item at its end, and leaves every persisted
\* line-item row in place and unchanged.
C5_AppendOnly ==
    /\ [][\/ bill'.lineItems = bill.lineItems
          \/ /\ Len(bill'.lineItems) = Len(bill.lineItems) + 1
             /\ SubSeq(bill'.lineItems, 1, Len(bill.lineItems)) = bill.lineItems]_vars
    /\ [][/\ Len(repoItems') >= Len(repoItems)
          /\ SubSeq(repoItems', 1, Len(repoItems)) = repoItems]_vars

C5_Witness ==
    /\ Len(bill.lineItems) = 2
    /\ Len(repoItems) = 2

C7_ClosedBeforeTimeout ==
    /\ periodEndTimer.state = "armed" => periodEndTimer.at <= wfDeadline
    /\ pc = "timed_out" => bill.status = BillStatusClosed

C9_SaveBillFirst ==
    /\ hist.started # <<>> =>
            /\ hist.started[1] = "SaveBill"
            /\ \A i \in 2..Len(hist.started) : hist.started[i] # "SaveBill"
    /\ hist.saveErr <=> pc = "failed"
    /\ pc = "failed" =>
            /\ hist.started = <<"SaveBill">>
            /\ ~queryHandler
            /\ periodEndTimer.state = "unarmed"
            /\ bill.status = BillStatusOpen
            /\ bill.lineItems = <<>>
            /\ repoItems = <<>>
            /\ act = NoAct

C9_Witness ==
    /\ pc = "failed"
    /\ addLineItemCh # <<>>
    /\ closeBillCh # <<>>

\* C10: when the workflow has left its selection loop, the persisted row is
\* closed with the closed_at of the in-memory bill.
C10_RepoClosedAtExit ==
    pc = "completed" =>
        /\ repoBill.present
        /\ repoBill.status = BillStatusClosed
        /\ repoBill.closedAt = bill.closedAt

\* the view and the in-memory bill have the same status, closed_at and items
SameAsInMemory(view) ==
    /\ view.status = bill.status
    /\ view.closedAt = bill.closedAt
    /\ view.lineItems = bill.lineItems

\* some read of the current state returns view v, totals included
Readable(v) == \E env \in GetEnvs : GetBillByID(env).err = "none" /\ GetBillByID(env).bill = v

\* C11: a get_bill served from the repository after the workflow has completed
\* returns the line items of the in-memory bill at completion (what the last
\* query before termination returned), in the same order.
C11_FallbackSameItems ==
    (svcResp.op = "get" /\ svcResp.err = "none" /\ svcResp.source = "repository"
        /\ pc = "completed") =>
    svcResp.bill.lineItems = bill.lineItems

\* C12: get_bill uses the workflow's bill when the query is answered, without
\* reading the repository; it reads the repository only when the query is not
\* answered, and returns not-found when the repository then has no row.
C12_GetBillSourceOrder ==
    svcResp.op = "get" =>
        /\ svcResp.queried =>
            /\ svcResp.source = "workflow"
            /\ ~svcResp.repoRead
            /\ svcResp.err = "none" => SameAsInMemory(svcResp.bill)
        /\ ~svcResp.queried =>
            /\ svcResp.source = "repository"
            /\ svcResp.repoRead
            /\ svcResp.err = "none" =>
                /\ repoBill.present
                /\ svcResp.bill.status = repoBill.status
                /\ svcResp.bill.closedAt = repoBill.closedAt
            /\ ~repoBill.present => svcResp.err \in {"not_found", "internal"}
        /\ svcResp.err = "not_found" => (~svcResp.queried /\ ~repoBill.present)

C12_Witness ==
    /\ svcResp.op = "get"
    /\ svcResp.err = "not_found"
    /\ pc = "failed"

\* C13: a get-bill query returns the in-memory bill as it is and changes
\* nothing: the in-memory bill, the pending signals, the timer, the position
\* of the workflow and the repository are the same after a read that the
\* workflow answered.
C13_QueryChangesNothing ==
    /\ [][svcResp'.source = "workflow" =>
            UNCHANGED <<bill, addLineItemCh, closeBillCh, periodEndTimer, readyBranch,
                        pc, act, repoBill, repoItems>>]_vars
    /\ []((svcResp.op = "get" /\ svcResp.source = "workflow" /\ svcResp.err = "none") =>
            SameAsInMemory(svcResp.bill))

C13_Witness ==
    /\ svcResp.op = "get"
    /\ svcResp.source = "workflow"
    /\ svcResp.err = "none"
    /\ pc = "activity"
    /\ Len(bill.lineItems) = 2
    /\ Len(repoItems) = 1
    /\ closeBillCh # <<>>

\* C14: add_line_item that reads a closed bill returns bill-closed and no
\* bill and sends no signal; a call goes on to signal only when its read
\* returned an open bill.
C14_AddToClosedRefused ==
    /\ [](svcResp.err = "bill_closed" =>
            /\ svcResp.op = "add"
            /\ svcResp.bill = NoView
            /\ ~svcResp.signalled
            /\ \E v \in {GetBillByID(env).bill : env \in GetEnvs} :
                    v.status = BillStatusClosed)
    /\ [][svcResp'.err = "bill_closed" => addLineItemCh' = addLineItemCh]_vars
    /\ [][(svc = NoSvc /\ svc'.op = "add") =>
            \E env \in GetEnvs : /\ GetBillByID(env).err = "none"
                                 /\ GetBillByID(env).bill.status = BillStatusOpen]_vars

C14_Witness ==
    /\ svcResp.op = "add"
    /\ svcResp.err = "bill_closed"
    /\ svcResp.source = "workflow"
    /\ bill.lineItems # <<>>

\* C15: in a successful add_line_item response total.by_currency gives, for
\* each currency, the sum of quantity x unit_price over the line items of that
\* response.
C15_AddResponseTotals ==
    (svcResp.op = "add" /\ svcResp.err = "none") =>
    \A c \in Currencies :
        SumItems(svcResp.bill.lineItems, c) =
            IF svcResp.bill.total.valid /\ c \in DOMAIN svcResp.bill.total.byCurrency
            THEN svcResp.bill.total.byCurrency[c] ELSE 0

\* C16: in a successful add_line_item response whose re-read bill is open the
\* signalled item occurs exactly once among the returned line items.
C16_AddedItemOnce ==
    (svcResp.op = "add" /\ svcResp.err = "none"
        /\ svcResp.bill.status = BillStatusOpen) =>
    Cardinality({i \in 1..Len(svcResp.bill.lineItems) :
                    svcResp.bill.lineItems[i].id = svcResp.item.id}) = 1

\* C17: close_bill that reads a closed bill returns that bill as read, closed
\* with its closed_at, and sends no signal; a call goes on to signal only
\* when its read returned an open bill.
C17_CloseOfClosedAsIs ==
    /\ []((svcResp.op = "close" /\ svcResp.err = "none" /\ ~svcResp.signalled) =>
            /\ svcResp.bill.status = BillStatusClosed
            /\ svcResp.bill.closedAt.valid
            /\ Readable(svcResp.bill))
    /\ [][(svcResp'.op = "close" /\ ~svcResp'.signalled) =>
            closeBillCh' = closeBillCh]_vars
    /\ [][(svc = NoSvc /\ svc'.op = "close") =>
            \E env \in GetEnvs : /\ GetBillByID(env).err = "none"
                                 /\ GetBillByID(env).bill.status = BillStatusOpen]_vars

C17_Witness ==
    /\ svcResp.op = "close"
    /\ svcResp.err = "none"
    /\ ~svcResp.signalled
    /\ svcResp.source = "repository"
    /\ svcResp.bill.closedAt = SomeTime(StartTime + 1)

\* C18: close_bill that read an open bill sends one close-bill signal, with
\* requested_at the instant the service took, and its successful response is
\* closed with closed_at that instant.
C18_CloseSignalsNow ==
    /\ [][(svc.op = "close" /\ svc.step = "signal" /\ svc'.step = "reread") =>
            closeBillCh' = Append(closeBillCh, svc.now)]_vars
    /\ [][closeBillCh' # closeBillCh =>
            \/ (svc.op = "close" /\ svc.step = "signal")
            \/ closeBillCh' = Tail(closeBillCh)]_vars
    /\ []((svcResp.op = "close" /\ svcResp.err = "none" /\ svcResp.signalled) =>
            /\ svcResp.bill.status = BillStatusClosed
            /\ svcResp.bill.closedAt = SomeTime(svcResp.now))

C18_Witness ==
    /\ svcResp.op = "close"
    /\ svcResp.err = "none"
    /\ svcResp.signalled
    /\ svcResp.now < now
    /\ bill.status = BillStatusOpen
    /\ closeBillCh # <<>>

\* C19: when the rate fetch fails get_bill returns the error of the fetch and
\* no bill, from the workflow or from the repository, with or without line
\* items, and the call changes neither the in-memory bill nor the repository.
C19_RatesFailure ==
    /\ []((svcResp.op = "get" /\ svcResp.fetch = "error") =>
            /\ svcResp.err = "get_rates_error"
            /\ svcResp.bill = NoView)
    /\ [][svcResp'.fetch = "error" => UNCHANGED <<bill, repoBill, repoItems>>]_vars

C19_Witness ==
    /\ svcResp.op = "get"
    /\ svcResp.fetch = "error"
    /\ svcResp.source = "repository"
    /\ pc = "completed"
    /\ repoItems # <<>>

\* the line items get_bill took from its source
SourceItems == IF svcResp.source = "workflow" THEN bill.lineItems
               ELSE GetLineItemsByBillID(repoItems)

\* C20: a get_bill whose bill has a line item in a currency that the rates
\* snapshot lacks fails with currency-not-found and returns no bill.
C20_MissingRate ==
    (svcResp.op = "get" /\ svcResp.fetch = "ok"
        /\ \E i \in 1..Len(SourceItems) :
                SourceItems[i].currency \notin DOMAIN svcResp.snapshot) =>
    /\ svcResp.err = "currency_not_found"
    /\ svcResp.bill = NoView

\* the currencies of a list of line items
CurrenciesOf(items) == {items[i].currency : i \in 1..Len(items)}

RECURSIVE SumOver(_, _)
\* the sum of f over the set of indices I
SumOver(f, I) ==
    IF I = {} THEN 0
    ELSE LET i == CHOOSE k \in I : TRUE IN f[i] + SumOver(f, I \ {i})

\* quantity x unit_price summed over the line items in currency c
Subtotal(items, c) ==
    SumOver([i \in 1..Len(items) |-> items[i].quantity * items[i].unitPrice],
            {i \in 1..Len(items) : items[i].currency = c})

\* C21: for a bill with at least one line item and rates that cover its
\* currencies CalculateSum succeeds and total.by_currency has exactly the
\* currencies of the line items, each with the sum of quantity x unit_price
\* over the line items in it.
C21_ByCurrencySums ==
    (calc.applied /\ calc.items # <<>>
        /\ CurrenciesOf(calc.items) \subseteq DOMAIN calc.rates) =>
    /\ calc.err = "none"
    /\ calc.total.valid
    /\ DOMAIN calc.total.byCurrency = CurrenciesOf(calc.items)
    /\ \A c \in CurrenciesOf(calc.items) :
            calc.total.byCurrency[c] = Subtotal(calc.items, c)

C21_Witness ==
    /\ calc.applied
    /\ Len(calc.items) = 2
    /\ CurrenciesOf(calc.items) = {"USD"}
    /\ "GEL" \in DOMAIN calc.rates
    /\ calc.total.valid
    /\ calc.total.byCurrency["USD"] = 10250

\* the amount x to the fractional digits of currency c, half away from zero,
\* x given as the fraction n / d of thousandths
RoundedToFraction(n, d, c) ==
    LET unit == IF Fraction(c) = 2 THEN 10 ELSE 1 IN
    ((2 * n + d * unit) \div (2 * d * unit)) * unit

\* C22: for every currency C of the bill converted[C].amount is the sum over
\* the currencies C' of the bill of by_currency[C'] x rate[C] / rate[C'],
\* rounded to the fractional digits of C.
C22_ConvertedRounded ==
    (calc.applied /\ calc.err = "none" /\ calc.total.valid
        /\ CurrenciesOf(calc.items) \subseteq DOMAIN calc.rates) =>
    \A c \in CurrenciesOf(calc.items) :
        LET others == CurrenciesOf(calc.items) \ {c}
            \* with the two currencies of the model: one other at most
            n == IF others = {} THEN Subtotal(calc.items, c)
                 ELSE LET o == CHOOSE x \in others : TRUE IN
                      Subtotal(calc.items, c) * calc.rates[o]
                        + Subtotal(calc.items, o) * calc.rates[c]
            d == IF others = {} THEN 1
                 ELSE LET o == CHOOSE x \in others : TRUE IN calc.rates[o]
        IN calc.total.converted[c] = RoundedToFraction(n, d, c)

\* C23: the repository's close_bill sets status closed and closed_at to the
\* instant given exactly when the stored bill is open; on a closed or absent
\* bill it reports that no row was affected and leaves the row as it was.
C23_RepoCloseIffOpen ==
    [][(repoCall'.op = "close" /\ repoCall' # repoCall) =>
        IF repoBill.present /\ repoBill.status = BillStatusOpen
        THEN /\ ~repoCall'.err
             /\ repoBill'.present
             /\ repoBill'.status = BillStatusClosed
             /\ repoBill'.closedAt = SomeTime(repoCall'.at)
        ELSE /\ repoCall'.err
             /\ repoBill' = repoBill]_vars

C23_Witness ==
    /\ repoCall.op = "close"
    /\ repoCall.err
    /\ repoBill.status = BillStatusClosed
    /\ repoBill.closedAt.valid
    /\ repoBill.closedAt.time # repoCall.at

\* C24: when an add-line-item signal is delivered more than once no two rows
\* of line_items have the same id.
C24_NoDuplicateRow ==
    \A i, j \in 1..Len(repoItems) : repoItems[i].id = repoItems[j].id => i = j

C24_Witness ==
    /\ redelivered > 0
    /\ \E i, j \in 1..Len(bill.lineItems) :
            i # j /\ bill.lineItems[i].id = bill.lineItems[j].id
    /\ Cardinality({i \in 1..Len(repoItems) : repoItems[i].id = 1}) = 1
    /\ act = NoAct
    /\ hist.started = <<"SaveBill", "AddLineItemToBill", "AddLineItemToBill">>

\* a GetRates call returned a snapshot in this step
ReturnedSnapshot == ratesRet.caller # 0 /\ ~ratesRet.err /\ ratesRet.rates # 0

\* C25: GetRates looks up in a fixed order: an in-process snapshot within TTL
\* is returned without reading the shared cache and without a fetch;
\* otherwise the shared cache is read (and its snapshot adopted without a
\* fetch); only after that is the provider fetched.
C25_LookupOrder ==
    ratesRet.caller # 0 =>
        /\ ratesRet.within => (~ratesRet.readCache /\ ~ratesRet.fetched)
        /\ ~ratesRet.within => ratesRet.readCache
        /\ ratesRet.fetched => (~ratesRet.within /\ ratesRet.readCache)

\* C26: a GetRates call made more than TTL after the provider served a
\* snapshot does not return that snapshot without reading the shared cache
\* or fetching from the provider.
C26_InProcessWithinTTL ==
    (ReturnedSnapshot /\ ~ratesRet.readCache /\ ~ratesRet.fetched) =>
    ratesRet.checkAt <= prov.produced[ratesRet.rates] + TTL

\* C27: the timestamp of every snapshot GetRates returns is the instant the
\* provider served the snapshot, and is not later than the instant of the
\* return.
C27_TimestampIsProduction ==
    ReturnedSnapshot =>
        /\ ratesRet.updatedAt = prov.produced[ratesRet.rates]
        /\ ratesRet.updatedAt <= ratesRet.at

\* C28: when the fetch fails GetRates returns the error and no snapshot, and
\* the call has changed neither the in-process snapshot nor the shared
\* cache: not in the step that fails, not in its steps before.
C28_FetchFailureChangesNothing ==
    /\ [][ratesRet'.err =>
            /\ ratesRet'.fetched
            /\ ratesRet'.rates = 0
            /\ ratesRet'.updatedAt = 0
            /\ exr' = exr
            /\ kv' = kv]_vars
    /\ [][(\E p \in Callers : /\ call[p].pc \in {"idle", "cacheGet", "fetch"}
                               /\ call'[p] # call[p]
                               /\ call'[p].pc \in {"cacheGet", "fetch", "idle"}) =>
            (exr' = exr /\ kv' = kv)]_vars

C28_Witness ==
    /\ ratesRet.err
    /\ exr.rates # 0
    /\ exr.updatedAt # 0
    /\ kv.present

\* C29: every snapshot GetRates returns pairs a rates map with the timestamp
\* written for that same map, whatever the interleaving of the calls.
C29_SnapshotNotTorn ==
    ReturnedSnapshot => ratesRet.updatedAt = prov.stamp[ratesRet.rates]

\* a create-bill request the validation rules exclude, at the instant clock
InvalidCreateBillRequest(req, clock) ==
    \/ req.customerID = ""
    \/ req.periodStart = 0
    \/ req.periodEnd = 0
    \/ req.periodEnd < req.periodStart
    \/ req.periodEnd - req.periodStart > MaxBillingPeriod
    \/ req.periodStart < clock - MaxPastStart

\* an add-line-item request the validation rules exclude
InvalidAddLineItemRequest(req) ==
    \/ req.description = ""
    \/ Len(req.description) > MaxDescriptionLength
    \/ req.currency \notin AllowedCurrencies
    \/ req.quantity <= 0
    \/ req.quantity > MaxQuantity
    \/ req.unitPrice < 0
    \/ req.unitPrice > MaxUnitPrice
    \/ req.quantity * req.unitPrice > MaxTotalAmount

\* a handler returned in this step
HandlerReturned == svcResp' # svcResp /\ "request" \in DOMAIN svcResp'

StimulusHandled ==
    \/ Len(addLineItemCh') < Len(addLineItemCh)
    \/ Len(closeBillCh') < Len(closeBillCh)
    \/ periodEndTimer.state = "fired" /\ periodEndTimer'.state = "consumed"

\* the activity in flight ends in this step: an attempt ran with success, or
\* the last attempt was made
ActivityEnds ==
    /\ pc \in {"save", "activity"}
    /\ act # NoAct
    /\ \/ act.attempt = MaximumAttempts
       \/ /\ ~RunActivity.err
          /\ repoBill' = RunActivity.row
          /\ repoItems' = RunActivity.rows

\* C31: at most one activity of the bill is in flight, and only while the
\* coroutine waits for it; a signal or the timer is taken up only by a
\* coroutine waiting in Select, or in the step in which the activity in
\* flight succeeds or makes its last attempt; an activity is started only
\* then, too.
C31_OneAtATime ==
    /\ [](act # NoAct <=> pc \in {"save", "activity"})
    /\ [][StimulusHandled => (pc = "select" \/ ActivityEnds)]_vars
    /\ [][Len(hist'.started) > Len(hist.started) =>
            /\ Len(hist'.started) = Len(hist.started) + 1
            /\ pc \in {"none", "select"} \/ ActivityEnds]_vars

C31_Witness ==
    /\ pc = "activity"
    /\ act.name = "AddLineItemToBill"
    /\ act.attempt = MaximumAttempts
    /\ addLineItemCh # <<>>
    /\ closeBillCh # <<>>
    /\ periodEndTimer.state = "fired"

\* an earlier attempt of the activity in flight has already taken effect in
\* the repository
EffectInPlace ==
    IF act.name = "SaveBill" THEN repoBill.present
    ELSE IF act.name = "AddLineItemToBill" THEN act.item.id \in RowIDs(repoItems)
    ELSE /\ repoBill.present
         /\ repoBill.status = BillStatusClosed
         /\ repoBill.closedAt = SomeTime(act.closedAt)

\* C32: an attempt of SaveBill, AddLineItemToBill or CloseBill made after an
\* attempt with the same input has taken effect leaves the repository as it
\* is and reports success.
C32_RetryIdempotent ==
    (act # NoAct /\ EffectInPlace) =>
        /\ ~RunActivity.err
        /\ RunActivity.row = repoBill
        /\ RunActivity.rows = repoItems

\* the activity `name` ends in this step on its last attempt: with the error
\* of that attempt when it fails
LastAttemptEnds(name) ==
    /\ pc = "activity"
    /\ act.name = name
    /\ act.attempt = MaximumAttempts
    /\ act' # act
    /\ pc' # "timed_out"

\* C33: when AddLineItemToBill ends on its last attempt the workflow does not
\* fail: the bill keeps the item and is closed only by a close case run next,
\* and the coroutine runs a ready case or waits in Select; when CloseBill ends
\* on its last attempt the in-memory bill stays closed with the requested
\* closed_at and the workflow completes.
C33_ExhaustionContinues ==
    /\ [][LastAttemptEnds("AddLineItemToBill") =>
            /\ pc' \in {"select", "activity"}
            /\ \E i \in 1..Len(bill.lineItems) : bill.lineItems[i].id = act.item.id
            /\ SubSeq(bill'.lineItems, 1, Len(bill.lineItems)) = bill.lineItems
            /\ IsOpen(bill)
            /\ IsClosed(bill') => act'.name = "CloseBill"
            /\ IF SelectedBranch # "none" THEN StimulusHandled
               ELSE pc' = "select" /\ bill' = bill]_vars
    /\ [][LastAttemptEnds("CloseBill") =>
            /\ pc' = "completed"
            /\ act' = NoAct
            /\ bill' = bill
            /\ IsClosed(bill)
            /\ bill.closedAt = SomeTime(act.closedAt)]_vars

\* item 1 was never persisted, item 2 was handled after it and persisted; the
\* close was never persisted and the workflow completed
C33_Witness ==
    /\ pc = "completed"
    /\ IsClosed(bill)
    /\ Len(bill.lineItems) = 2
    /\ RowIDs(repoItems) = {2}
    /\ repoBill.present
    /\ repoBill.status = BillStatusOpen

\* C34: while the workflow runs every row of line_items is an item of the
\* in-memory bill, and when the coroutine waits in Select (no activity in
\* flight) the rows of line_items and the status of the bills row are those
\* of the in-memory bill.
C34_RepoLagsByOneActivity ==
    Running =>
        /\ RowIDs(repoItems) \subseteq RowIDs(bill.lineItems)
        /\ pc = "select" =>
            /\ ItemIDs(repoItems) = ItemIDs(bill.lineItems)
            /\ repoBill.present
            /\ repoBill.status = bill.status

\* C35, as stated: after create-bill has returned the bill, and while
\* SaveBill has not used up its attempts, no get_bill returns not-found.
C35_NeverNotFound ==
    (Created /\ ~hist.saveErr /\ svcResp.op = "get") => svcResp.err # "not_found"

\* C35, amended: after create-bill has returned the bill, a get_bill returns
\* not-found only while the bills row is not written (SaveBill has not taken
\* effect) and the query handler is not registered; once the row is written
\* no get_bill returns not-found.
C35_NotFoundOnlyBeforeSaved ==
    (Created /\ svcResp.op = "get" /\ svcResp.err = "not_found") =>
        /\ ~repoBill.present
        /\ ~queryHandler
        /\ svcResp.repoRead

\* get_bill answered from the repository while the workflow runs
C35_Witness ==
    /\ Created
    /\ svcResp.op = "get"
    /\ svcResp.err = "none"
    /\ svcResp.source = "repository"
    /\ repoBill.present
    /\ pc = "select"

\* C36: an add_line_item call that returns an error has sent no
\* add-line-item signal to the workflow.
C36_ErrorAddsNothing ==
    (svcResp.op = "add" /\ svcResp.err # "none") => ~svcResp.signalled

\* add_line_item returned success in this step with the item `id` of the call
\* in the returned view
AddAcknowledged(id) ==
    /\ svcResp.op = "add"
    /\ svcResp.err = "none"
    /\ svcResp.item.id = id
    /\ id \in ItemIDs(svcResp.bill.lineItems)

\* C37: when add_line_item has returned success with the new item in the
\* view, the workflow eventually holds the item in its in-memory bill and
\* line_items holds its row, in runs where activities succeed.
C37_AcknowledgedItemPersisted ==
    \A id \in 1..MaxItems :
        AddAcknowledged(id) ~> (id \in ItemIDs(bill.lineItems) /\ id \in RowIDs(repoItems))

\* C38: when close_bill returns success and the workflow holds the bill
\* closed, the closed_at of the response is the closed_at of the workflow's
\* bill.
C38_ResponseClosedAtIsRecorded ==
    (svcResp.op = "close" /\ svcResp.err = "none" /\ IsClosed(bill)) =>
        /\ IsClosed(svcResp.bill)
        /\ svcResp.bill.closedAt = bill.closedAt

\* C39: the in-memory bill holds no two line items with the same id, also
\* when an add-line-item signal is delivered more than once.
C39_NoDuplicateInMemory ==
    \A i, j \in 1..Len(bill.lineItems) :
        bill.lineItems[i].id = bill.lineItems[j].id => i = j

\* the CloseBill activities started so far
CloseBillStarts == {i \in 1..Len(hist.started) : hist.started[i] = "CloseBill"}

\* C40: a workflow starts the CloseBill activity at most once, and the
\* closed_at it hands to it is the closed_at of its in-memory bill.
C40_OneCloseBillActivity ==
    /\ Cardinality(CloseBillStarts) <= 1
    /\ act.name = "CloseBill" =>
        /\ IsClosed(bill)
        /\ bill.closedAt = SomeTime(act.closedAt)
    /\ CloseBillStarts # {} => IsClosed(bill)

\* CloseBill in flight for the first close signal, sent before period end,
\* with a second close signal and the fired timer waiting
C40_Witness ==
    /\ act.name = "CloseBill"
    /\ hist.closedBy = "signal"
    /\ act.closedAt < bill.periodEnd
    /\ closeBillCh # <<>>
    /\ periodEndTimer.state = "fired"

====
